---- MODULE Spec2Model ----
(***************************************************************************)
(* A model of two parts of the ORM layer:                                  *)
(*   - lib/sqlalchemy/sql/dml.py: the Insert / Update statement builders   *)
(*     (value-set accumulation, multi-row values, RETURNING and            *)
(*     return-defaults, hints, WHERE);                                     *)
(*   - lib/sqlalchemy/orm/strategy_options.py: the loader options          *)
(*     (_UnboundLoad built by _from_keys and bound against a query,        *)
(*     StrategizedOption.process_query_property).                          *)
(*                                                                         *)
(* Python objects that are shared by reference (dictionaries, lists, the   *)
(* _to_bind set) live in heaps indexed by object identity, so that a       *)
(* shallow clone shares them exactly as the code does.                     *)
(***************************************************************************)
EXTENDS Integers, Sequences, FiniteSets, TLC

VARIABLES
    heap,       \* dml: the dict and list objects, by identity (index)
    stmts,      \* dml: the statements constructed so far
    last,       \* dml: the last call: operation, receiver, arguments, outcome
    opts,       \* orm: the _UnboundLoad objects, by identity (index)
    binds,      \* orm: the _to_bind set objects, by identity (index)
    made,       \* orm: the options the caller built, with the arguments given
    query,      \* orm: the query: _mapper_entities, _current_path, _attributes
    lastp,      \* orm: the last option call: operation, arguments, outcome
    loads,      \* orm: the bound Load objects, by identity (index)
    ctxs        \* orm: the context dict objects of the Load objects, by identity

vars == <<heap, stmts, last, opts, binds, made, query, lastp, loads, ctxs>>
dmlVars == <<heap, stmts, last>>
loadVars == <<loads, ctxs>>
ormVars == <<opts, binds, made, query, lastp, loads, ctxs>>

(***************************************************************************)
(* Bounds of the model.                                                    *)
(***************************************************************************)
MaxStmts == 3       \* statements alive in one run (constructor + calls)
MaxMade == 1        \* options built by _from_keys in one run
MaxPaths == 3       \* tokens of a property option's key (paths in its path list)
MaxCalls == 2       \* process_query_property calls in one run

(***************************************************************************)
(*                       PART 1: sql/dml.py                                *)
(***************************************************************************)

\* The target table's columns, in table.c order, and the values used.
TableCols == <<"a", "b">>
Keys == {TableCols[i] : i \in DOMAIN TableCols}
Vals == {"v1", "v2"}
Absent == "absent"      \* key not in the dictionary
Null == "Null"          \* the Null() placeholder of from_select

\* Python's None / True / False and tuples, as sequences of strings.
NoneV == <<"None">>
TrueV == <<"True">>
FalseV == <<"False">>
Tup(cols) == <<"tuple">> \o cols

\* A dict is a function over Keys (Absent: no such key); a list holds the
\* identities of its rows.
EmptyDict == [k \in Keys |-> Absent]
DictObj(d) == [type |-> "dict", d |-> d, rows |-> <<>>]
ListObj(rows) == [type |-> "list", d |-> EmptyDict, rows |-> rows]
DictKeys(d) == {k \in Keys : d[k] # Absent}

\* dict.update(other): other's keys replace, the rest stay.
DictUpdateKeepOld(d, other) == [k \in Keys |-> IF d[k] # Absent THEN d[k] ELSE other[k]]
DictUpdate(d, other) == [k \in Keys |-> IF other[k] # Absent THEN other[k] ELSE d[k]]

\* dict(zip(table.c, p)): columns paired with the tuple's values, positionally.
ZipCols(tup) ==
    [k \in Keys |->
        LET i == CHOOSE j \in DOMAIN TableCols : TableCols[j] = k
        IN  IF i <= Len(tup) THEN tup[i] ELSE Absent]

\* Arguments: a positional argument of values() / the constructor's values=.
\*   form "None"  : None (the constructor's default)
\*   form "noarg" : no positional argument (values() only)
\*   form "dict"  : a caller's dictionary, by identity
\*   form "tuple" : a tuple of scalars (one row); the empty tuple included
\*   form "rows"  : a list whose elements are dicts (ref > 0) or tuples
\*   form "two"   : two positional arguments
Arg(form, ref, tup, rows) == [form |-> form, ref |-> ref, tup |-> tup, rows |-> rows]
RowRef(r) == [ref |-> r, tup |-> <<>>]
RowTup(t) == [ref |-> 0, tup |-> t]

\* The caller owns two dictionaries, objects 1 and 2 of the heap.
CallerDicts == {1, 2}
InitHeap ==
    << DictObj([k \in Keys |-> IF k = "a" THEN "v1" ELSE Absent]),
       DictObj([k \in Keys |-> "v2"]) >>

\* The inputs of the calls.
NoArg == Arg("noarg", 0, <<>>, <<>>)
TwoArgs == Arg("two", 0, <<>>, <<>>)
NoneArg == Arg("None", 0, <<>>, <<>>)
RowLists == { <<RowRef(1)>>, <<RowTup(<<"v1", "v2">>), RowRef(2)>> }
TupleArgs == {<<>>, <<"v2", "v1">>}
DictArgs == {Arg("dict", r, <<>>, <<>>) : r \in CallerDicts}
RowsArgs == {Arg("rows", 0, <<>>, rs) : rs \in RowLists}
ValuesArgs ==
    {NoArg, TwoArgs} \cup DictArgs \cup RowsArgs
    \cup {Arg("tuple", 0, t, <<>>) : t \in TupleArgs}
CtorArgs == (ValuesArgs \ {NoArg, TwoArgs}) \cup {NoneArg}
NoKw == EmptyDict
SomeKw == [k \in Keys |-> IF k = "b" THEN "v1" ELSE Absent]
ValuesCalls ==
    {<<v, NoKw>> : v \in ValuesArgs}
    \cup {<<v, SomeKw>> : v \in {NoArg, Arg("dict", 1, <<>>, <<>>),
                                 Arg("rows", 0, <<>>, <<RowRef(1)>>)}}
ReturningCols == {<<>>, <<"a">>}
DefaultsCols == {<<>>, <<"b", "a">>}
Selects == {"sel"}
NameLists == {<<>>, <<"a">>}
WhereClauses == {"w1", "w2"}
Selectables == {"None", "t2"}
HintKeys == {<<"t", "*">>, <<"t2", "*">>}
NoHints == [hk \in HintKeys |-> Absent]

\* The exceptions raised, with their messages.
ErrUnsupportedMulti ==
    "InvalidRequestError: This construct does not support multiple parameter sets."
ErrFromSelect == "InvalidRequestError: This construct already inserts from a SELECT"
ErrAlreadyMulti == "InvalidRequestError: This construct already has multiple parameter sets."
ErrPositional ==
    "ArgumentError: Only a single dictionary/tuple or list of dictionaries/tuples is accepted positionally."
ErrMix == "ArgumentError: Can't mix single-values and multiple values formats in one statement"
ErrKwMulti == "ArgumentError: Can't pass kwargs and multiple parameter sets simultaenously"
ErrValueExprs == "InvalidRequestError: This construct already inserts value expressions"
ErrIndex == "IndexError: tuple index out of range"
ErrNoWhere == "AttributeError: 'Insert' object has no attribute 'where'"

\* A freshly allocated object gets the next identity.
Alloc(h, obj) == Append(h, obj)

\* UpdateBase._process_colparams.process_single: a dict is returned as it is
\* (the same object); a list or tuple becomes a new dict.
process_single(h, p) ==
    IF p.ref > 0
    THEN [heap |-> h, id |-> p.ref]
    ELSE [heap |-> Alloc(h, DictObj(ZipCols(p.tup))), id |-> Len(h) + 1]

RECURSIVE process_rows(_, _, _)
process_rows(h, rows, acc) ==
    IF rows = <<>> THEN [heap |-> h, ids |-> acc]
    ELSE LET r == process_single(h, Head(rows))
         IN  process_rows(r.heap, Tail(rows), Append(acc, r.id))

\* Insert._supports_multi_parameters = True; ValuesBase's default is False.
supports_multi_parameters_always(kind) == TRUE
supports_multi_parameters(kind) == kind = "Insert"

\* UpdateBase._process_colparams: (parameters, has_multi_parameters), or raises.
process_colparams(h, kind, v) ==
    CASE v.form = "None" ->
            [res |-> "ok", heap |-> h, p |-> 0, multi |-> FALSE]
      [] v.form = "dict" ->
            [res |-> "ok", heap |-> h, p |-> v.ref, multi |-> FALSE]
      [] v.form = "tuple" /\ v.tup = <<>> ->
            [res |-> ErrIndex, heap |-> h, p |-> 0, multi |-> FALSE]
      [] v.form = "tuple" /\ v.tup # <<>> ->
            LET r == process_single(h, RowTup(v.tup))
            IN  [res |-> "ok", heap |-> r.heap, p |-> r.id, multi |-> FALSE]
      [] v.form = "rows" ->
            IF ~supports_multi_parameters(kind)
            THEN [res |-> ErrUnsupportedMulti, heap |-> h, p |-> 0, multi |-> FALSE]
            ELSE LET r == process_rows(h, v.rows, <<>>)
                 IN  [res |-> "ok", heap |-> Alloc(r.heap, ListObj(r.ids)),
                      p |-> Len(r.heap) + 1, multi |-> TRUE]

\* Generative._generate: a shallow copy; the clone refers to the same objects.
Generate(s) == s

Raise(h, s, err) == [res |-> err, heap |-> h, stmt |-> s]
Return(h, s) == [res |-> "ok", heap |-> h, stmt |-> s]

\* ValuesBase.values, lines 303-309: the keyword arguments.
values_kwargs(h0, h, s, kw) ==
    IF kw = EmptyDict THEN Return(h, s)
    ELSE IF s.multi THEN Raise(h0, s, ErrKwMulti)
    ELSE Return([h EXCEPT ![s.parameters].d = DictUpdate(@, kw)], s)

\* ValuesBase.values, lines 285-293: the statement holds a list of rows.
values_multi_accepts_single(h0, s, v, kw) ==
    LET h1 == Alloc(h0, ListObj(h0[s.parameters].rows))
        r == process_colparams(h1, s.kind, v)
    IN  IF r.res # "ok" THEN Raise(h0, s, r.res)
        ELSE values_kwargs(h0,
                [r.heap EXCEPT ![Len(h0) + 1].rows =
                    @ \o (IF r.multi THEN r.heap[r.p].rows ELSE <<r.p>>)],
                [s EXCEPT !.parameters = Len(h0) + 1, !.multi = TRUE], kw)
values_multi_prepends(h0, s, v, kw) ==
    LET h1 == Alloc(h0, ListObj(h0[s.parameters].rows))
        r == process_colparams(h1, s.kind, v)
    IN  IF r.res # "ok" THEN Raise(h0, s, r.res)
        ELSE IF ~r.multi THEN Raise(h0, s, ErrMix)
        ELSE values_kwargs(h0,
                [r.heap EXCEPT ![Len(h0) + 1].rows = r.heap[r.p].rows \o @],
                [s EXCEPT !.parameters = Len(h0) + 1, !.multi = r.multi], kw)
values_multi(h0, s, v, kw) ==
    LET h1 == Alloc(h0, ListObj(h0[s.parameters].rows))
        r == process_colparams(h1, s.kind, v)
    IN  IF r.res # "ok" THEN Raise(h0, s, r.res)
        ELSE IF ~r.multi THEN Raise(h0, s, ErrMix)
        ELSE values_kwargs(h0,
                [r.heap EXCEPT ![Len(h0) + 1].rows = @ \o r.heap[r.p].rows],
                [s EXCEPT !.parameters = Len(h0) + 1, !.multi = r.multi], kw)

\* ValuesBase.values, lines 294-301: the statement holds one dictionary.
values_single_keep_old(h0, s, v, kw) ==
    LET h1 == Alloc(h0, DictObj(h0[s.parameters].d))
        r == process_colparams(h1, s.kind, v)
    IN  IF r.res # "ok" THEN Raise(h0, s, r.res)
        ELSE IF r.multi THEN Raise(h0, s, ErrMix)
        ELSE values_kwargs(h0,
                [r.heap EXCEPT ![Len(h0) + 1].d = DictUpdateKeepOld(@, r.heap[r.p].d)],
                [s EXCEPT !.parameters = Len(h0) + 1, !.multi = r.multi], kw)
values_single_inplace(h0, s, v, kw) ==
    LET r == process_colparams(h0, s.kind, v)
    IN  IF r.res # "ok" THEN Raise(h0, s, r.res)
        ELSE IF r.multi THEN Raise(h0, s, ErrMix)
        ELSE values_kwargs(h0,
                [r.heap EXCEPT ![s.parameters].d = DictUpdate(@, r.heap[r.p].d)],
                [s EXCEPT !.multi = r.multi], kw)
values_single(h0, s, v, kw) ==
    LET h1 == Alloc(h0, DictObj(h0[s.parameters].d))
        r == process_colparams(h1, s.kind, v)
    IN  IF r.res # "ok" THEN Raise(h0, s, r.res)
        ELSE IF r.multi THEN Raise(h0, s, ErrMix)
        ELSE values_kwargs(h0,
                [r.heap EXCEPT ![Len(h0) + 1].d = DictUpdate(@, r.heap[r.p].d)],
                [s EXCEPT !.parameters = Len(h0) + 1, !.multi = r.multi], kw)

\* ValuesBase.values, lines 281-283: the statement holds no value-set yet.
values_first_flag_kept(h0, s, v, kw) ==
    LET r == process_colparams(h0, s.kind, v)
    IN  IF r.res # "ok" THEN Raise(h0, s, r.res)
        ELSE values_kwargs(h0, r.heap, [s EXCEPT !.parameters = r.p], kw)
values_first(h0, s, v, kw) ==
    LET r == process_colparams(h0, s.kind, v)
    IN  IF r.res # "ok" THEN Raise(h0, s, r.res)
        ELSE values_kwargs(h0, r.heap,
                [s EXCEPT !.parameters = r.p, !.multi = r.multi], kw)

\* ValuesBase.values: the body run on the clone; the outcome and the heap after.
values(h, s, v, kw) ==
    IF s.select # "None" THEN Raise(h, s, ErrFromSelect)
    ELSE IF s.multi /\ kw # EmptyDict THEN Raise(h, s, ErrAlreadyMulti)
    ELSE IF v.form = "two" THEN Raise(h, s, ErrPositional)
    ELSE LET h0 == IF v.form = "noarg" THEN Alloc(h, DictObj(EmptyDict)) ELSE h
             v0 == IF v.form = "noarg" THEN Arg("dict", Len(h) + 1, <<>>, <<>>) ELSE v
             r  == IF s.parameters = 0 THEN values_first(h0, s, v0, kw)
                   ELSE IF s.multi THEN values_multi(h0, s, v0, kw)
                   ELSE values_single(h0, s, v0, kw)
         IN  IF r.res = "ok" THEN r ELSE Raise(h, s, r.res)

\* Truth value of self.parameters: None, an empty dict and an empty list are false.
truthy(h, p) ==
    IF p = 0 THEN FALSE
    ELSE IF h[p].type = "dict" THEN DictKeys(h[p].d) # {}
    ELSE h[p].rows # <<>>

\* Insert.from_select.
from_select_unchecked(h, s, names, sel) ==
    LET d == [k \in Keys |-> IF \E i \in DOMAIN names : names[i] = k THEN Null ELSE Absent]
        r == process_colparams(Alloc(h, DictObj(d)), s.kind,
                               Arg("dict", Len(h) + 1, <<>>, <<>>))
    IN  Return(r.heap, [s EXCEPT !.parameters = r.p, !.multi = r.multi, !.select = sel])
from_select(h, s, names, sel) ==
    IF truthy(h, s.parameters) THEN Raise(h, s, ErrValueExprs)
    ELSE LET d == [k \in Keys |->
                      IF \E i \in DOMAIN names : names[i] = k THEN Null ELSE Absent]
             r == process_colparams(Alloc(h, DictObj(d)), s.kind,
                                    Arg("dict", Len(h) + 1, <<>>, <<>>))
         IN  Return(r.heap, [s EXCEPT !.parameters = r.p, !.multi = r.multi,
                                      !.select = sel])

\* UpdateBase.returning.
returning(s, cols) == [s EXCEPT !.returning = Tup(cols)]

\* ValuesBase.return_defaults: cols or True.
return_defaults_as_given(s, cols) == [s EXCEPT !.return_defaults = Tup(cols)]
return_defaults_into_returning(s, cols) ==
    [s EXCEPT !.returning = Tup(cols),
              !.return_defaults = IF cols # <<>> THEN Tup(cols) ELSE TrueV]
return_defaults(s, cols) ==
    [s EXCEPT !.return_defaults = IF cols # <<>> THEN Tup(cols) ELSE TrueV]

\* UpdateBase.with_hint: selectable defaults to the statement's table.
with_hint(s, text, selectable, dialect_name) ==
    LET sel == IF selectable = "None" THEN s.table ELSE selectable
    IN  [s EXCEPT !.hints = [hk \in HintKeys |->
                                IF hk = <<sel, dialect_name>> THEN text ELSE @[hk]]]

\* Update.where: and_(existing, new) is the conjunction, kept as the sequence
\* of its conjuncts; no WHERE clause is the empty sequence.
where(s, whereclause) == [s EXCEPT !.whereclause = @ \o <<whereclause>>]

\* Delete.where, the same body as Update.where: and_(self._whereclause, w)
\* when there is a predicate, else w.  A predicate is the sequence of its
\* conjuncts, <<>> for None.
delete_where_replaces(s, whereclause) == [s EXCEPT !.whereclause = <<whereclause>>]
delete_where(s, whereclause) == [s EXCEPT !.whereclause = @ \o <<whereclause>>]

\* ValuesBase.__init__ with Insert.__init__ / Update.__init__: the new
\* statement, or the error of _process_colparams.
NewStmt(kind, p, multi) ==
    [kind |-> kind, table |-> "t", parameters |-> p, multi |-> multi,
     select |-> "None", returning |-> NoneV, return_defaults |-> FalseV,
     hints |-> NoHints, whereclause |-> <<>>]
init_stmt(h, kind, v) ==
    LET r == process_colparams(h, kind, v)
    IN  IF r.res = "ok" THEN Return(r.heap, NewStmt(kind, r.p, r.multi))
        ELSE Raise(h, NewStmt(kind, 0, FALSE), r.res)

\* Delete.__init__: a table and an optional WHERE predicate; a Delete has no
\* value-set.
init_delete(h, whereclause) ==
    Return(h, [NewStmt("Delete", 0, FALSE) EXCEPT !.whereclause = whereclause])

(***************************************************************************)
(* The statement-builder state machine.  The run starts with the           *)
(* constructor call; every later step is one generative call on one of     *)
(* the statements built so far: the method body runs on a shallow clone    *)
(* and the clone is returned, or the call raises and returns nothing.      *)
(***************************************************************************)

\* What a statement's value-set holds, read through the heap.
DeepParams(h, p) ==
    IF p = 0 THEN [form |-> "None", d |-> EmptyDict, rows |-> <<>>]
    ELSE IF h[p].type = "dict" THEN [form |-> "dict", d |-> h[p].d, rows |-> <<>>]
    ELSE [form |-> "list", d |-> EmptyDict,
          rows |-> [i \in DOMAIN h[p].rows |-> h[h[p].rows[i]].d]]
Deep(h, s) ==
    [kind |-> s.kind, table |-> s.table, params |-> DeepParams(h, s.parameters),
     multi |-> s.multi, select |-> s.select, returning |-> s.returning,
     return_defaults |-> s.return_defaults, hints |-> s.hints,
     whereclause |-> s.whereclause]

\* What an argument holds when the call is made.
ArgDict(h, v) ==
    IF v.form = "dict" THEN h[v.ref].d
    ELSE IF v.form = "tuple" THEN ZipCols(v.tup)
    ELSE EmptyDict
ArgRows(h, v) ==
    [i \in DOMAIN v.rows |->
        IF v.rows[i].ref > 0 THEN h[v.rows[i].ref].d ELSE ZipCols(v.rows[i].tup)]

Called(op, i, before, r, v, kw, cols) ==
    /\ heap' = r.heap
    /\ stmts' = IF r.res = "ok" THEN Append(stmts, r.stmt) ELSE stmts
    /\ last' = [op |-> op, recv |-> i, res |-> r.res,
                new |-> IF r.res = "ok" THEN Len(stmts) + 1 ELSE 0,
                count |-> Len(stmts),
                before |-> before, arg |-> v, argd |-> ArgDict(heap, v),
                argrows |-> ArgRows(heap, v), kw |-> kw, cols |-> cols]

OrmIdle ==
    /\ opts = <<>>
    /\ binds = <<>>
    /\ made = <<>>
    /\ query = <<>>
    /\ lastp = <<>>
    /\ loads = <<>>
    /\ ctxs = <<>>

InitDml ==
    /\ \E kind \in {"Insert", "Update", "Delete"}, v \in CtorArgs :
          LET r == IF kind = "Delete" THEN init_delete(InitHeap, <<>>)
                   ELSE init_stmt(InitHeap, kind, v)
          IN  /\ kind = "Delete" => v = NoneArg
              /\ heap = r.heap
              /\ stmts = IF r.res = "ok" THEN <<r.stmt>> ELSE <<>>
              /\ last = [op |-> "init", recv |-> 0, res |-> r.res,
                         new |-> IF r.res = "ok" THEN 1 ELSE 0, count |-> 0,
                         before |-> Deep(InitHeap, NewStmt(kind, 0, FALSE)),
                         arg |-> v, argd |-> ArgDict(InitHeap, v),
                         argrows |-> ArgRows(InitHeap, v), kw |-> NoKw,
                         cols |-> <<>>]
    /\ OrmIdle

Values(i, v, kw) ==
    /\ Len(stmts) < MaxStmts
    /\ stmts[i].kind # "Delete"
    /\ Called("values", i, Deep(heap, stmts[i]),
              values(heap, Generate(stmts[i]), v, kw), v, kw, <<>>)
    /\ UNCHANGED ormVars

FromSelect(i, names, sel) ==
    /\ Len(stmts) < MaxStmts
    /\ stmts[i].kind = "Insert"
    /\ Called("from_select", i, Deep(heap, stmts[i]),
              from_select(heap, Generate(stmts[i]), names, sel), NoneArg, NoKw, names)
    /\ UNCHANGED ormVars

Returning(i, cols) ==
    /\ Len(stmts) < MaxStmts
    /\ Called("returning", i, Deep(heap, stmts[i]),
              Return(heap, returning(Generate(stmts[i]), cols)), NoneArg, NoKw, cols)
    /\ UNCHANGED ormVars

ReturnDefaults(i, cols) ==
    /\ Len(stmts) < MaxStmts
    /\ stmts[i].kind # "Delete"
    /\ Called("return_defaults", i, Deep(heap, stmts[i]),
              Return(heap, return_defaults(Generate(stmts[i]), cols)), NoneArg, NoKw, cols)
    /\ UNCHANGED ormVars

WithHint(i, text, selectable) ==
    /\ Len(stmts) < MaxStmts
    /\ Called("with_hint", i, Deep(heap, stmts[i]),
              Return(heap, with_hint(Generate(stmts[i]), text, selectable, "*")),
              NoneArg, NoKw, <<text, selectable>>)
    /\ UNCHANGED ormVars

\* where() is a method of Update and of Delete; Insert has none.
Where(i, whereclause) ==
    /\ Len(stmts) < MaxStmts
    /\ Called("where", i, Deep(heap, stmts[i]),
              IF stmts[i].kind = "Update"
              THEN Return(heap, where(Generate(stmts[i]), whereclause))
              ELSE IF stmts[i].kind = "Delete"
              THEN Return(heap, delete_where(Generate(stmts[i]), whereclause))
              ELSE Raise(heap, stmts[i], ErrNoWhere),
              NoneArg, NoKw, <<whereclause>>)
    /\ UNCHANGED ormVars

NextDml ==
    \/ \E i \in DOMAIN stmts, c \in ValuesCalls : Values(i, c[1], c[2])
    \/ \E i \in DOMAIN stmts, names \in NameLists, sel \in Selects :
            FromSelect(i, names, sel)
    \/ \E i \in DOMAIN stmts, cols \in ReturningCols : Returning(i, cols)
    \/ \E i \in DOMAIN stmts, cols \in DefaultsCols : ReturnDefaults(i, cols)
    \/ \E i \in DOMAIN stmts, selectable \in Selectables : WithHint(i, "h1", selectable)
    \/ \E i \in DOMAIN stmts, w \in WhereClauses : Where(i, w)

SpecDml == InitDml /\ [][NextDml]_vars

(***************************************************************************)
(* Properties of the statement builders.                                   *)
(***************************************************************************)
NewStmtOf(l) == stmts[l.new]
NewParams == DeepParams(heap, stmts[last.new].parameters)
\* The dictionary a single-row call supplies: the positional dictionary or
\* tuple, then the keyword arguments.
CallDict == DictUpdate(last.argd, last.kw)
SingleRowForms == {"noarg", "dict", "tuple"}
NoStatementMade == last.new = 0 /\ Len(stmts) = last.count

\* C3: values() with a single-row dictionary on a statement that already
\* holds a single-row value-set (and no SELECT) returns a statement whose
\* value-set has the keys of both: a key of the later call has the later
\* call's value, a key of the earlier value-set alone keeps its value.
C3_ValuesMerge ==
    (/\ last.op = "values"
     /\ last.before.params.form = "dict"
     /\ last.before.select = "None"
     /\ last.arg.form \in SingleRowForms
     /\ last.arg.form = "tuple" => last.arg.tup # <<>>)
    => /\ last.res = "ok"
       /\ NewParams.form = "dict"
       /\ ~NewStmtOf(last).multi
       /\ DictKeys(NewParams.d) = DictKeys(last.before.params.d) \cup DictKeys(CallDict)
       /\ \A k \in DictKeys(CallDict) : NewParams.d[k] = CallDict[k]
       /\ \A k \in DictKeys(last.before.params.d) \ DictKeys(CallDict) :
              NewParams.d[k] = last.before.params.d[k]
C3_Witness ==
    /\ last.op = "values"
    /\ last.res = "ok"
    /\ Len(stmts) = 3
    /\ stmts[1].parameters = 0
    /\ last.recv = 2
    /\ last.before.params.form = "dict"
    /\ last.arg.form = "dict"
    /\ \E k \in Keys : /\ last.before.params.d[k] # Absent
                       /\ CallDict[k] # Absent
                       /\ CallDict[k] # last.before.params.d[k]
    /\ \E k \in Keys : last.before.params.d[k] # Absent /\ CallDict[k] = Absent

\* C4: mixing the single-row and the multi-row style always raises and
\* makes no statement: a list of rows on a statement holding a single-row
\* value-set, a single dictionary (or tuple, or keyword arguments only) on a
\* statement holding a list of rows, and a list of rows together with
\* keyword arguments.
C4_MixingRaises ==
    (/\ last.op = "values"
     /\ \/ last.arg.form = "rows" /\ last.before.params.form = "dict"
        \/ last.arg.form \in SingleRowForms /\ last.before.params.form = "list"
        \/ last.arg.form = "rows" /\ last.kw # NoKw)
    => /\ last.res \in {ErrMix, ErrKwMulti, ErrAlreadyMulti, ErrUnsupportedMulti,
                        ErrFromSelect, ErrIndex}
       /\ NoStatementMade
C4_Witness ==
    /\ last.op = "values"
    /\ last.arg.form = "dict"
    /\ last.kw = NoKw
    /\ last.before.params.form = "list"
    /\ last.res = ErrMix
    /\ NoStatementMade

\* C5: values() with a list of rows on an Insert that already holds a list
\* of rows returns a statement whose rows are the earlier rows followed by
\* the new rows, in order; the multi-row flag stays true.
C5_MultiRowsConcatenate ==
    (/\ last.op = "values"
     /\ last.before.kind = "Insert"
     /\ last.before.params.form = "list"
     /\ last.arg.form = "rows"
     /\ last.kw = NoKw)
    => /\ last.res = "ok"
       /\ NewStmtOf(last).multi
       /\ NewParams.form = "list"
       /\ NewParams.rows = last.before.params.rows \o last.argrows
C5_Witness ==
    /\ last.op = "values"
    /\ last.res = "ok"
    /\ last.before.params.form = "list"
    /\ Len(last.before.params.rows) = 1
    /\ Len(last.argrows) = 2
    /\ NewParams.rows = last.before.params.rows \o last.argrows
    /\ NewParams.rows # last.argrows \o last.before.params.rows

\* C6: a list of rows given to an Update, through the constructor or through
\* values(), raises the unsupported-operation error and makes no statement;
\* an Insert never raises that error, and accepts the rows when it holds no
\* single-row value-set and no SELECT.
C6_MultiUnsupportedOnUpdate ==
    (last.op \in {"init", "values"} /\ last.arg.form = "rows")
    => /\ last.before.kind = "Update"
          => last.res = ErrUnsupportedMulti /\ NoStatementMade
       /\ last.before.kind = "Insert"
          => /\ last.res # ErrUnsupportedMulti
             /\ (/\ last.before.params.form \in {"None", "list"}
                 /\ last.before.select = "None"
                 /\ last.kw = NoKw)
                => /\ last.res = "ok"
                   /\ NewStmtOf(last).multi
                   /\ NewParams.rows = last.before.params.rows \o last.argrows
C6_Witness ==
    /\ last.op = "values"
    /\ last.arg.form = "rows"
    /\ last.before.kind = "Update"
    /\ last.before.params.form = "dict"
    /\ last.res = ErrUnsupportedMulti

\* C7: from_select() on an Insert that carries value expressions raises,
\* values() on an Insert that has a SELECT raises, and no statement has both
\* a SELECT and a value supplied by values(): with a SELECT the value-set is
\* the dictionary of Null placeholders of from_select().
HasValueExpressions(params) ==
    \/ params.form = "dict" /\ DictKeys(params.d) # {}
    \/ params.form = "list" /\ params.rows # <<>>
C7_SelectExcludesValues ==
    /\ (last.op = "from_select" /\ HasValueExpressions(last.before.params))
       => last.res = ErrValueExprs /\ NoStatementMade
    /\ (last.op = "values" /\ last.before.select # "None")
       => last.res = ErrFromSelect /\ NoStatementMade
    /\ \A i \in DOMAIN stmts :
          stmts[i].select # "None"
          => /\ ~stmts[i].multi
             /\ DeepParams(heap, stmts[i].parameters).form = "dict"
             /\ \A k \in Keys :
                    DeepParams(heap, stmts[i].parameters).d[k] \in {Absent, Null}
C7_Witness ==
    /\ last.op = "values"
    /\ last.arg.form = "dict"
    /\ last.before.select # "None"
    /\ last.res = ErrFromSelect

\* C8: returning() sets the RETURNING list to its columns and leaves the
\* return-defaults directive as it was; return_defaults() sets the directive
\* and leaves the RETURNING list as it was.
C8_ReturningIndependent ==
    /\ last.op = "returning"
       => /\ last.res = "ok"
          /\ NewStmtOf(last).returning = Tup(last.cols)
          /\ NewStmtOf(last).return_defaults = last.before.return_defaults
    /\ last.op = "return_defaults"
       => /\ last.res = "ok"
          /\ NewStmtOf(last).return_defaults
                = (IF last.cols = <<>> THEN TrueV ELSE Tup(last.cols))
          /\ NewStmtOf(last).returning = last.before.returning
C8_Witness ==
    /\ last.op = "return_defaults"
    /\ last.before.returning = Tup(<<"a">>)
    /\ NewStmtOf(last).returning = Tup(<<"a">>)
    /\ NewStmtOf(last).return_defaults = Tup(<<"b", "a">>)

\* C9: return_defaults() with no columns records True (not an empty tuple,
\* not the False of a new statement); with columns it records those columns.
C9_ReturnDefaultsSentinel ==
    /\ (last.op = "init" /\ last.res = "ok") => stmts[1].return_defaults = FalseV
    /\ (last.op = "return_defaults" /\ last.cols = <<>>)
       => /\ NewStmtOf(last).return_defaults = TrueV
          /\ NewStmtOf(last).return_defaults \notin {Tup(<<>>), FalseV}
    /\ (last.op = "return_defaults" /\ last.cols # <<>>)
       => NewStmtOf(last).return_defaults = Tup(last.cols)
C9_Witness ==
    /\ last.op = "return_defaults"
    /\ last.cols = <<>>
    /\ last.before.return_defaults = FalseV
    /\ NewStmtOf(last).return_defaults = TrueV

\* C10: a call of values(), returning(), return_defaults(), with_hint(),
\* where() or from_select() leaves the statement it is called on as it was
\* (value-set, multi-row flag, SELECT, RETURNING list, return-defaults
\* directive, hints, WHERE), whether it returns a statement or raises.
C10_ReceiverUnchanged ==
    last.op # "init" => Deep(heap, stmts[last.recv]) = last.before
C10_Witness ==
    /\ last.op = "values"
    /\ last.res = "ok"
    /\ last.arg.form = "dict"
    /\ last.kw # NoKw
    /\ stmts[last.recv].parameters = last.arg.ref
    /\ Deep(heap, stmts[last.recv]) = last.before
    /\ Deep(heap, stmts[last.new]) # last.before

\* C24: where() on an Update or a Delete returns a statement whose WHERE
\* predicate is the given expression alone when the receiver had none, and
\* the conjunction of the receiver's predicate with the given expression
\* otherwise: the conjuncts of the receiver in their order, then the new one.
C24_WhereAccumulates ==
    (last.op = "where" /\ last.before.kind \in {"Update", "Delete"})
    => /\ last.res = "ok"
       /\ last.before.whereclause = <<>> => stmts[last.new].whereclause = last.cols
       /\ stmts[last.new].whereclause = last.before.whereclause \o last.cols
       /\ stmts[last.new].kind = last.before.kind
C24_Witness ==
    /\ last.op = "where"
    /\ last.before.kind = "Delete"
    /\ last.before.whereclause = <<"w1">>
    /\ last.res = "ok"
    /\ stmts[last.new].whereclause = <<"w1", "w2">>

\* C25: in every Insert or Update built by the constructor and any
\* successful values() and from_select() calls, the multi-row flag is true
\* exactly when the value-set is a list of rows, and false when it is one
\* dictionary or absent.
C25_MultiFlagMatchesValueSet ==
    \A i \in DOMAIN stmts :
        stmts[i].kind \in {"Insert", "Update"}
        => (stmts[i].multi <=> DeepParams(heap, stmts[i].parameters).form = "list")
C25_Witness ==
    /\ last.op = "values"
    /\ last.res = "ok"
    /\ last.before.params.form = "None"
    /\ stmts[last.new].multi
    /\ DeepParams(heap, stmts[last.new].parameters).form = "list"
    /\ \E i \in DOMAIN stmts :
          ~stmts[i].multi /\ DeepParams(heap, stmts[i].parameters).form = "dict"

\* C26: values() does not modify a dictionary the caller passes: after
\* stmt.values(d, **kw) the dictionary d holds what it held before the call.
C26_ArgumentUnchanged ==
    (last.op = "values" /\ last.arg.form = "dict")
    => heap[last.arg.ref].d = last.argd

(***************************************************************************)
(*                  PART 2: orm/strategy_options.py                        *)
(***************************************************************************)

\* The mapping consulted through the introspection interface: the mapped
\* entities and, for each, its properties.  A relationship property has a
\* target mapper; a column property has none.
Entities == {"User", "Order", "Item", "Keyword"}
NoProp == "noprop"      \* the entity has no property of that name
Column == "column"      \* a column property: no .mapper
PropTarget(entity, key) ==
    CASE entity = "User" /\ key = "orders" -> "Order"
      [] entity = "User" /\ key = "name" -> Column
      [] entity = "Order" /\ key = "items" -> "Item"
      [] entity = "Order" /\ key = "user" -> "User"
      [] entity = "Item" /\ key = "keywords" -> "Keyword"
      [] entity = "Keyword" /\ key = "name" -> Column
      [] OTHER -> NoProp

\* PathRegistry: a path is the tuple (entity, property, entity, property, ...);
\* it has an entity when its last element is one, and its parent drops the
\* last element.  set() stores under (key, path); a later set replaces.
has_entity(path) == Len(path) % 2 = 1
parent(path) == SubSeq(path, 1, Len(path) - 1)
Entry(key, path, value) == [key |-> key, path |-> path, value |-> value]
Contains(attributes, key, path) == \E e \in attributes : e.key = key /\ e.path = path
Get(attributes, key, path) == (CHOOSE e \in attributes : e.key = key /\ e.path = path).value
PathSet(attributes, key, path, value) ==
    {e \in attributes : ~(e.key = key /\ e.path = path)} \cup {Entry(key, path, value)}
\* dict.update(other)
AttrUpdateKeepOld(attributes, other) ==
    attributes \cup {e \in other : ~Contains(attributes, e.key, e.path)}
AttrUpdate(attributes, other) ==
    {e \in attributes : ~Contains(other, e.key, e.path)} \cup other

\* The values stored in a context: a Load object (its strategy and path), a
\* boolean, a strategy class.
LoadValue(strategy, path) == [kind |-> "Load", strategy |-> strategy, path |-> path]
PlainValue(x) == [kind |-> "plain", strategy |-> x, path |-> <<>>]

\* Strategies: (("lazy", "joined"),) and None.
JoinedStrategy == <<"lazy", "joined">>

\* Tokens of an unbound path: a string, or a class-bound attribute (a
\* PropComparator: its _parententity and the key of its property).
StrTok(key) == [t |-> "str", cls |-> "", key |-> key]
AttrTok(cls, key) == [t |-> "attr", cls |-> cls, key |-> key]

\* A property as an element of a path: its key after the entity it belongs
\* to, and qualified by its class after any other entity.
PropElem(entity, cls, key) == IF cls = entity THEN key ELSE cls \o "." \o key

\* str.split("."): a dotted string is the sequence of its names and dots.
Dot == "."
RECURSIVE split(_, _)
split(str, cur) ==
    IF str = <<>> THEN <<cur>>
    ELSE IF Head(str) = Dot THEN <<cur>> \o split(Tail(str), "")
    ELSE split(Tail(str), Head(str))

\* The heap of unbound options and of their _to_bind sets.
Store(o, b) == [opts |-> o, binds |-> b]
NoOpts == [eager_join_type |-> "unset"]

\* _UnboundLoad.__init__: an empty path, a new _to_bind set, no local options.
UnboundLoad(st) ==
    [st |-> Store(Append(st.opts, [path |-> <<>>, strategy |-> NoneV,
                                   to_bind |-> Len(st.binds) + 1,
                                   local_opts |-> NoOpts]),
                  Append(st.binds, {})),
     id |-> Len(st.opts) + 1]

\* _UnboundLoad._generate: the shallow clone of Generative._generate (same
\* path, same strategy, the same _to_bind set object) with local_opts reset.
generate(st, o) ==
    [st |-> Store(Append(st.opts, [st.opts[o] EXCEPT !.local_opts = NoOpts]), st.binds),
     id |-> Len(st.opts) + 1]

\* _UnboundLoad._generate_path.
unbound_generate_path(path, attr) == path \o <<attr>>

\* _UnboundLoad._set_strategy (generative).
set_strategy(st, o, attr, strategy) ==
    LET g == generate(st, o)
        os == [g.st.opts EXCEPT ![g.id].path = unbound_generate_path(@, attr),
                                ![g.id].strategy = strategy]
    IN  [st |-> Store(os,
                      IF strategy # NoneV
                      THEN [g.st.binds EXCEPT ![os[g.id].to_bind] = @ \cup {g.id}]
                      ELSE g.st.binds),
         id |-> g.id]

\* Load.default.
default(st, o, attr) == set_strategy(st, o, attr, NoneV)

\* _UnboundLoad._set_options: local_opts.update(kw), on the object itself.
unbound_set_options(st, o, innerjoin) ==
    Store([st.opts EXCEPT ![o].local_opts.eager_join_type = innerjoin], st.binds)

\* Load.joined: innerjoin is "None" when not given.
joined(st, o, attr, innerjoin) ==
    LET r == set_strategy(st, o, attr, JoinedStrategy)
    IN  IF innerjoin # "None"
        THEN [st |-> unbound_set_options(r.st, r.id, innerjoin), id |-> r.id]
        ELSE r

\* _UnboundLoad._from_keys, with meth = cls.joined (_joinedload and
\* _joinedload_all) and kw = {innerjoin: ...} or {}.
all_tokens(keys) ==
    LET RECURSIVE flat(_)
        flat(ks) == IF ks = <<>> THEN <<>> ELSE split(Head(ks), "") \o flat(Tail(ks))
    IN  flat(keys)
RECURSIVE from_keys_loop(_, _, _, _, _)
from_keys_loop(st, opt, tokens, chained, innerjoin) ==
    IF Len(tokens) = 1
    THEN joined(st, opt, StrTok(tokens[1]), innerjoin)
    ELSE LET r == IF chained THEN joined(st, opt, StrTok(Head(tokens)), innerjoin)
                  ELSE default(st, opt, StrTok(Head(tokens)))
         IN  from_keys_loop(r.st, r.id, Tail(tokens), chained, innerjoin)
from_keys_never_chained(st, keys, chained, innerjoin) ==
    LET o == UnboundLoad(st)
    IN  from_keys_loop(o.st, o.id, all_tokens(keys), FALSE, innerjoin)
from_keys(st, keys, chained, innerjoin) ==
    LET o == UnboundLoad(st)
    IN  from_keys_loop(o.st, o.id, all_tokens(keys), chained, innerjoin)

\* _UnboundLoad._find_entity_basestring: the first mapper entity of the query.
find_entity_basestring(q, token, raiseerr) ==
    IF q.mapper_entities # <<>>
    THEN [res |-> "ok", entity |-> q.mapper_entities[1]]
    ELSE IF raiseerr THEN [res |-> "ArgumentError", entity |-> "None"]
    ELSE [res |-> "ok", entity |-> "None"]

\* Load._generate_path.  A string attribute: path.entity.attrs[attr], then
\* path[attr], then on to the entity path when the property has a mapper.
\* A class-bound attribute (without of_type): path[attr.property], then on
\* to the entity path of the property's mapper.
load_generate_path(path, attr) ==
    IF ~has_entity(path) THEN [res |-> "AttributeError", path |-> path]
    ELSE IF attr.t = "attr"
    THEN [res |-> "ok",
          path |-> path \o <<PropElem(path[Len(path)], attr.cls, attr.key)>>
                        \o (IF PropTarget(attr.cls, attr.key) = Column THEN <<>>
                            ELSE <<PropTarget(attr.cls, attr.key)>>)]
    ELSE IF PropTarget(path[Len(path)], attr.key) = NoProp
    THEN [res |-> "KeyError", path |-> path]
    ELSE IF PropTarget(path[Len(path)], attr.key) = Column
    THEN [res |-> "ok", path |-> path \o <<attr.key>>]
    ELSE [res |-> "ok", path |-> path \o <<attr.key, PropTarget(path[Len(path)], attr.key)>>]

\* _UnboundLoad._bind_loader, lines 197-198: every token of the path in turn.
RECURSIVE generate_paths(_, _)
generate_paths(path, tokens) ==
    IF tokens = <<>> THEN [res |-> "ok", path |-> path]
    ELSE LET r == load_generate_path(path, Head(tokens))
         IN  IF r.res # "ok" THEN r ELSE generate_paths(r.path, Tail(tokens))

\* _UnboundLoad._find_entity_prop_comparator(query, token, mapper, conditional):
\* the entity of the query that corresponds to the attribute's class; when
\* there is none, ArgumentError unless conditional, else None.
unbound_find_entity_prop_comparator(q, token, mapper, conditional) ==
    IF \E i \in DOMAIN q.mapper_entities : q.mapper_entities[i] = mapper
    THEN [res |-> "ok", entity |-> mapper]
    ELSE IF ~conditional THEN [res |-> "ArgumentError", entity |-> "None"]
    ELSE [res |-> "ok", entity |-> "None"]

\* _UnboundLoad._chop_path is declared as _chop_path(to_chop, path), without
\* self, and called as self._chop_path(start_path, current_path): the call
\* passes three arguments to a function of two and raises TypeError.
chop_path_call(start_path, current_path) == [res |-> "TypeError", path |-> start_path]

\* Load._set_options: at the parent when the path has an entity, else at the path.
load_set_options(ctx, path, local_opts) ==
    PathSet(ctx, "eager_join_type",
            IF has_entity(path) THEN parent(path) ELSE path,
            PlainValue(<<local_opts.eager_join_type>>))

\* _UnboundLoad._bind_loader: the context after, or the exception raised.
bind_loader(o, q, context, raiseerr) ==
    LET chopped == IF q.current_path # <<>>
                   THEN chop_path_call(o.path, q.current_path)
                   ELSE [res |-> "ok", path |-> o.path]
        start_path == chopped.path
    IN  IF chopped.res # "ok" THEN [res |-> chopped.res, ctx |-> context]
        ELSE IF start_path = <<>> THEN [res |-> "IndexError", ctx |-> context]
        ELSE IF start_path[1].t \notin {"str", "attr"}
        THEN [res |-> "ArgumentError", ctx |-> context]
        ELSE LET f == IF start_path[1].t = "str"
                      THEN find_entity_basestring(q, start_path[1], raiseerr)
                      ELSE \* the raise flag is passed as "conditional"
                           unbound_find_entity_prop_comparator(
                                q, start_path[1].key, start_path[1].cls, raiseerr)
             IN  IF f.res # "ok" THEN [res |-> f.res, ctx |-> context]
                 ELSE IF f.entity = "None" THEN [res |-> "AttributeError", ctx |-> context]
                 ELSE LET g == generate_paths(<<f.entity>>, start_path)
                      IN  IF g.res # "ok" THEN [res |-> g.res, ctx |-> context]
                          ELSE LET c == PathSet(context, "loader",
                                            IF has_entity(g.path) THEN parent(g.path)
                                            ELSE g.path,
                                            LoadValue(o.strategy, g.path))
                               IN  [res |-> "ok",
                                    ctx |-> IF o.local_opts # NoOpts
                                            THEN load_set_options(c, g.path, o.local_opts)
                                            ELSE c]

\* _UnboundLoad._process: a new context, every option of _to_bind bound into
\* it in the set's iteration order, then query._attributes.update(context).
\* An exception leaves the loop before the update.
RECURSIVE bind_all(_, _, _, _, _)
bind_all(os, order, q, context, raiseerr) ==
    IF order = <<>> THEN [res |-> "ok", ctx |-> context]
    ELSE LET r == bind_loader(os[Head(order)], q, context, raiseerr)
         IN  IF r.res # "ok" THEN r ELSE bind_all(os, Tail(order), q, r.ctx, raiseerr)
process(os, order, q, raiseerr) == bind_all(os, order, q, {}, raiseerr)

\* The orders in which a set can be iterated.
Orders(S) ==
    {f \in [1..Cardinality(S) -> S] : \A i, j \in 1..Cardinality(S) : i # j => f[i] # f[j]}

(***************************************************************************)
(* The unbound-option state machine: the caller builds options with        *)
(* _from_keys and processes them against the query.                        *)
(***************************************************************************)
Str(a) == <<a>>
Dotted2(a, b) == <<a, Dot, b>>
Dotted3(a, b, c) == <<a, Dot, b, Dot, c>>
KeyTuples ==
    { <<Str("orders")>>,
      <<Dotted2("orders", "items")>>,
      <<Str("orders"), Dotted2("items", "keywords")>>,
      <<Dotted3("items", "keywords", "name")>>,
      <<Str("name")>>,
      <<Dotted2("orders", "bogus")>>,
      <<Dotted2("name", "orders")>> }
InnerJoins == {"None", "True"}
Query(ents, cur, attrs) == [mapper_entities |-> ents, current_path |-> cur, attributes |-> attrs]
LazyStrategy == <<"lazy", "select">>
Queries ==
    { Query(<<"User">>, <<>>, {}),
      Query(<<"Order", "User">>, <<>>,
            {Entry("loader", <<"Order", "items">>,
                   LoadValue(LazyStrategy, <<"Order", "items", "Item">>))}),
      Query(<<>>, <<>>, {}),
      Query(<<"Order">>, <<"User", "orders">>, {}) }

DmlIdle ==
    /\ heap = <<>>
    /\ stmts = <<>>
    /\ last = <<>>
LoadIdle ==
    /\ loads = <<>>
    /\ ctxs = <<>>

LastP(op, opt, raiseerr, r, before) ==
    [op |-> op, opt |-> opt, raiseerr |-> raiseerr, res |-> r.res, ctx |-> r.ctx,
     before |-> before]

InitUnbound ==
    /\ opts = <<>>
    /\ binds = <<>>
    /\ made = <<>>
    /\ query \in Queries
    /\ lastp = LastP("init", 0, FALSE, [res |-> "ok", ctx |-> {}], {})
    /\ DmlIdle
    /\ LoadIdle

FromKeys(keys, chained, innerjoin) ==
    /\ Len(made) < MaxMade
    /\ LET r == from_keys(Store(opts, binds), keys, chained, innerjoin)
       IN  /\ opts' = r.st.opts
           /\ binds' = r.st.binds
           /\ made' = Append(made, [opt |-> r.id, keys |-> keys, chained |-> chained,
                                    innerjoin |-> innerjoin])
           /\ lastp' = LastP("from_keys", Len(made) + 1, FALSE, [res |-> "ok", ctx |-> {}],
                             query.attributes)
    /\ UNCHANGED <<query, dmlVars, loadVars>>

Process(m, raiseerr, order) ==
    /\ LET r == process(opts, order, query, raiseerr)
       IN  /\ query' = IF r.res = "ok"
                       THEN [query EXCEPT !.attributes = AttrUpdate(@, r.ctx)]
                       ELSE query
           /\ lastp' = LastP("process", m, raiseerr, r, query.attributes)
    /\ UNCHANGED <<opts, binds, made, dmlVars, loadVars>>

NextUnbound ==
    \/ \E keys \in KeyTuples, chained \in BOOLEAN, innerjoin \in InnerJoins :
            FromKeys(keys, chained, innerjoin)
    \/ \E m \in DOMAIN made, raiseerr \in BOOLEAN :
            \E order \in Orders(binds[opts[made[m].opt].to_bind]) :
                Process(m, raiseerr, order)

SpecUnbound == InitUnbound /\ [][NextUnbound]_vars

(***************************************************************************)
(* StrategizedOption: the options that write "loaderstrategy".             *)
(***************************************************************************)

\* RelationshipProperty._strategy_lookup(lazy=...): the strategy class of a
\* lazy value.
strategy_lookup(lazy) ==
    CASE lazy = "True" -> "LazyLoader"
      [] lazy = "joined" -> "JoinedLoader"
      [] lazy = "subquery" -> "SubqueryLoader"
      [] OTHER -> "NoLoader"

\* DeferredOption.__init__ (chained is StrategizedOption's class attribute,
\* False) and EagerLazyOption.__init__.
DeferredOption(defer) ==
    [cls |-> "DeferredOption", defer |-> defer, chained |-> FALSE, strategy_cls |-> "unset"]
EagerLazyOption(lazy, chained) ==
    [cls |-> "EagerLazyOption", defer |-> FALSE, chained |-> chained,
     strategy_cls |-> strategy_lookup(lazy)]

\* DeferredOption.get_strategy_class and EagerLazyOption.get_strategy_class.
get_strategy_class(opt) ==
    IF opt.cls = "DeferredOption"
    THEN (IF opt.defer THEN "DeferredColumnLoader" ELSE "ColumnLoader")
    ELSE opt.strategy_cls

\* StrategizedOption.process_query_property: query._attributes afterwards.
RECURSIVE set_all(_, _, _, _)
set_all(attributes, key, paths, value) ==
    IF paths = <<>> THEN attributes
    ELSE set_all(PathSet(attributes, key, Head(paths), value), key, Tail(paths), value)
process_query_property_first_only(attributes, opt, paths) ==
    PathSet(attributes, "loaderstrategy", paths[1], PlainValue(<<get_strategy_class(opt)>>))
process_query_property(attributes, opt, paths) ==
    IF opt.chained
    THEN set_all(attributes, "loaderstrategy", paths, PlainValue(<<get_strategy_class(opt)>>))
    ELSE PathSet(attributes, "loaderstrategy", paths[Len(paths)],
                 PlainValue(<<get_strategy_class(opt)>>))

(***************************************************************************)
(* What the mapping says about a path of property names, read off the      *)
(* mapping alone: whether the names resolve from an entity, and the path   *)
(* (entity, property, ..., entity, property) of the first n of them.       *)
(***************************************************************************)
RECURSIVE Resolves(_, _)
Resolves(entity, names) ==
    IF names = <<>> THEN TRUE
    ELSE IF PropTarget(entity, Head(names)) = NoProp THEN FALSE
    ELSE IF PropTarget(entity, Head(names)) = Column THEN Tail(names) = <<>>
    ELSE Resolves(PropTarget(entity, Head(names)), Tail(names))
RECURSIVE PrefixPath(_, _, _)
PrefixPath(entity, names, n) ==
    IF n = 0 THEN <<>>
    ELSE <<entity, Head(names)>> \o PrefixPath(PropTarget(entity, Head(names)), Tail(names), n - 1)
LoaderEntries(ctx) == {e \in ctx : e.key = "loader"}
Matching(q, names) ==
    /\ q.current_path = <<>>
    /\ q.mapper_entities # <<>>
    /\ Resolves(q.mapper_entities[1], names)

\* C1: an option built by _from_keys over a dotted path of N segments and
\* processed against a matching query (a primary query whose first entity
\* the path resolves from) puts into the query's attribute context exactly N
\* "loader" directives when chained, one at each prefix of the path of
\* length 1..N, and exactly one, at the full path, when not chained; every
\* one carries the strategy of the call.
C1_FromKeysDirectives ==
    (lastp.op = "process" /\ Matching(query, all_tokens(made[lastp.opt].keys)))
    => LET m == made[lastp.opt]
           names == all_tokens(m.keys)
           N == Len(names)
           e0 == query.mapper_entities[1]
           L == LoaderEntries(lastp.ctx)
           want == IF m.chained THEN {PrefixPath(e0, names, n) : n \in 1..N}
                   ELSE {PrefixPath(e0, names, N)}
       IN  /\ lastp.res = "ok"
           /\ Cardinality(L) = (IF m.chained THEN N ELSE 1)
           /\ {e.path : e \in L} = want
           /\ \A e \in L : e.value.kind = "Load" /\ e.value.strategy = JoinedStrategy
           /\ L \subseteq query.attributes
           /\ LoaderEntries(query.attributes) \ L \subseteq lastp.before
C1_Witness ==
    /\ lastp.op = "process"
    /\ lastp.res = "ok"
    /\ made[lastp.opt].chained
    /\ Len(all_tokens(made[lastp.opt].keys)) = 3
    /\ Matching(query, all_tokens(made[lastp.opt].keys))
    /\ Cardinality(LoaderEntries(lastp.ctx)) = 3

\* The properties of the (entity, property) pairs of a current path, and
\* whether the first tokens of an option are those properties.
CurProps(cur) == [i \in 1..(Len(cur) \div 2) |-> cur[2 * i]]
ChopMatches(names, cur) ==
    /\ Len(CurProps(cur)) <= Len(names)
    /\ \A i \in DOMAIN CurProps(cur) : names[i] = CurProps(cur)[i]
Chopped(names, cur) == SubSeq(names, Len(CurProps(cur)) + 1, Len(names))

\* C15: processing against a query with a non-empty current path of k
\* (entity, property) pairs removes the option's first k tokens when they
\* are the k properties of the current path and resolves the remaining
\* tokens from the query's entity; on any mismatch the option is discarded:
\* nothing is raised and nothing is written.
C15_ChopOrDiscard ==
    (lastp.op = "process" /\ query.current_path # <<>>)
    => LET m == made[lastp.opt]
           names == all_tokens(m.keys)
           rest == Chopped(names, query.current_path)
       IN  /\ lastp.res = "ok"
           /\ ~ChopMatches(names, query.current_path)
              => lastp.ctx = {} /\ query.attributes = lastp.before
           /\ (/\ ChopMatches(names, query.current_path)
               /\ ~m.chained
               /\ rest # <<>>
               /\ Resolves(query.mapper_entities[1], rest))
              => {e.path : e \in LoaderEntries(lastp.ctx)}
                    = {PrefixPath(query.mapper_entities[1], rest, Len(rest))}

(***************************************************************************)
(* The strategized-option state machine: options are applied to the path   *)
(* lists that path resolution returns, the paths of the successive         *)
(* prefixes of a key that resolves from the query's entity.                *)
(***************************************************************************)
Props == {"orders", "name", "items", "user", "keywords"}
KeyNames(entity) ==
    {ns \in UNION {[1..k -> Props] : k \in 1..MaxPaths} : Resolves(entity, ns)}
PathList(entity, names) == [n \in 1..Len(names) |-> PrefixPath(entity, names, n)]
StrategizedOptions ==
    {DeferredOption(d) : d \in BOOLEAN}
    \cup {EagerLazyOption("joined", c) : c \in BOOLEAN}

InitStrategized ==
    /\ query = Query(<<"User">>, <<>>,
                     {Entry("loader", <<"User", "orders">>,
                            LoadValue(LazyStrategy, <<"User", "orders", "Order">>))})
    /\ lastp = [op |-> "init", n |-> 0, option |-> DeferredOption(FALSE), paths |-> <<>>,
                before |-> {}]
    /\ opts = <<>>
    /\ binds = <<>>
    /\ made = <<>>
    /\ DmlIdle
    /\ LoadIdle

ProcessQueryProperty(opt, paths) ==
    /\ lastp.n < MaxCalls
    /\ query' = [query EXCEPT !.attributes = process_query_property(@, opt, paths)]
    /\ lastp' = [op |-> "process_query_property", n |-> lastp.n + 1, option |-> opt,
                 paths |-> paths, before |-> query.attributes]
    /\ UNCHANGED <<opts, binds, made, dmlVars, loadVars>>

NextStrategized ==
    \E opt \in StrategizedOptions, names \in KeyNames(query.mapper_entities[1]) :
        ProcessQueryProperty(opt, PathList(query.mapper_entities[1], names))

SpecStrategized == InitStrategized /\ [][NextStrategized]_vars

\* The entry under (key, path), or Absent.
Lookup(attributes, key, path) ==
    IF Contains(attributes, key, path) THEN Get(attributes, key, path).strategy
    ELSE <<Absent>>

LStore(l, c) == [loads |-> l, ctxs |-> c]
LoadRaise(ls, c, err) == [res |-> err, loads |-> ls.loads, ctxs |-> c, id |-> 0]
LoadReturn(l, c, id) == [res |-> "ok", loads |-> l, ctxs |-> c, id |-> id]

\* Load.__init__: the root path of the entity and a new, empty context.
Load(ls, entity) ==
    LoadReturn(Append(ls.loads, [path |-> <<entity>>, strategy |-> NoneV,
                                 context |-> Len(ls.ctxs) + 1]),
               Append(ls.ctxs, {}), Len(ls.loads) + 1)

\* Load._set_strategy (generative): the clone's path and strategy, and the
\* "loader" entry at the parent of the new path when the strategy is not None.
load_set_strategy_at_path(ls, o, attr, strategy) ==
    LET self == Generate(ls.loads[o])
        r == load_generate_path(self.path, attr)
    IN  IF r.res # "ok" THEN LoadRaise(ls, ls.ctxs, r.res)
        ELSE LoadReturn(
                Append(ls.loads, [self EXCEPT !.path = r.path, !.strategy = strategy]),
                IF strategy # NoneV
                THEN [ls.ctxs EXCEPT ![self.context] =
                        PathSet(@, "loader", r.path, LoadValue(strategy, r.path))]
                ELSE ls.ctxs,
                Len(ls.loads) + 1)
load_set_strategy(ls, o, attr, strategy) ==
    LET self == Generate(ls.loads[o])
        r == load_generate_path(self.path, attr)
    IN  IF r.res # "ok" THEN LoadRaise(ls, ls.ctxs, r.res)
        ELSE LoadReturn(
                Append(ls.loads, [self EXCEPT !.path = r.path, !.strategy = strategy]),
                IF strategy # NoneV
                THEN [ls.ctxs EXCEPT ![self.context] =
                        PathSet(@, "loader", parent(r.path), LoadValue(strategy, r.path))]
                ELSE ls.ctxs,
                Len(ls.loads) + 1)

\* Load._set_column_strategy (generative): for every attribute a further
\* clone with the strategy and the extended path, registered under "loader"
\* at that path in the context; the first clone is returned, its own path
\* and strategy as they were.  An attribute that does not resolve raises
\* after the entries of the earlier attributes have been written.
RECURSIVE set_column_loop(_, _, _, _, _)
set_column_loop(ls, self, id, attrs, strategy) ==
    IF attrs = <<>> THEN LoadReturn(ls.loads, ls.ctxs, id)
    ELSE LET r == load_generate_path(self.path, Head(attrs))
             cloned == [Generate(self) EXCEPT !.strategy = strategy, !.path = r.path]
         IN  IF r.res # "ok" THEN LoadRaise(ls, ls.ctxs, r.res)
             ELSE set_column_loop(
                    LStore(Append(ls.loads, cloned),
                           [ls.ctxs EXCEPT ![self.context] =
                               PathSet(@, "loader", r.path, LoadValue(strategy, r.path))]),
                    self, id, Tail(attrs), strategy)
load_set_column_strategy(ls, o, attrs, strategy) ==
    LET self == Generate(ls.loads[o])
        r == set_column_loop(LStore(Append(ls.loads, self), ls.ctxs), self,
                             Len(ls.loads) + 1, attrs, strategy)
    IN  IF r.res = "ok" THEN r ELSE LoadRaise(ls, r.ctxs, r.res)

\* Load.defer.
DeferredStrategy == <<"deferred", "True", "instrument", "True">>
load_defer(ls, o, attrs) == load_set_column_strategy(ls, o, attrs, DeferredStrategy)

\* Load.default.
load_default(ls, o, attr) == load_set_strategy(ls, o, attr, NoneV)

\* Load.joined with Load._set_options: eager_join_type is written into the
\* context of the returned option when innerjoin is not None.
load_joined_when_true(ls, o, attr, innerjoin) ==
    LET r == load_set_strategy(ls, o, attr, JoinedStrategy)
    IN  IF r.res = "ok" /\ innerjoin = "True"
        THEN [r EXCEPT !.ctxs[r.loads[r.id].context] =
                load_set_options(@, r.loads[r.id].path, [eager_join_type |-> innerjoin])]
        ELSE r
load_joined(ls, o, attr, innerjoin) ==
    LET r == load_set_strategy(ls, o, attr, JoinedStrategy)
    IN  IF r.res = "ok" /\ innerjoin # "None"
        THEN [r EXCEPT !.ctxs[r.loads[r.id].context] =
                load_set_options(@, r.loads[r.id].path, [eager_join_type |-> innerjoin])]
        ELSE r

(***************************************************************************)
(* The bound-option state machine: Load(entity), then generative calls on  *)
(* the options built so far.                                               *)
(***************************************************************************)
MaxLoadCalls == 2
LoadAttrs == {StrTok("orders"), StrTok("name"), StrTok("items"), StrTok("bogus")}
ColumnAttrLists == { <<StrTok("name")>>, <<StrTok("name"), StrTok("orders")>>,
                     <<StrTok("name"), StrTok("bogus")>> }
LoadStrategies == {NoneV, JoinedStrategy, LazyStrategy}
LoadInnerJoins == {"None", "True", "False"}

\* What an option holds, its context read through the heap.
DeepLoad(ls, o) ==
    [path |-> ls.loads[o].path, strategy |-> ls.loads[o].strategy,
     context |-> ls.ctxs[ls.loads[o].context]]

LoadCalled(op, o, r, attrs, strategy, innerjoin) ==
    /\ lastp.n < MaxLoadCalls
    /\ loads' = r.loads
    /\ ctxs' = r.ctxs
    /\ lastp' = [op |-> op, n |-> lastp.n + 1, recv |-> o, res |-> r.res, new |-> r.id,
                 attrs |-> attrs, strategy |-> strategy, innerjoin |-> innerjoin,
                 before |-> DeepLoad(LStore(loads, ctxs), o)]
    /\ UNCHANGED <<opts, binds, made, query, dmlVars>>

InitLoad ==
    /\ \E entity \in {"User", "Order"} :
          LET r == Load(LStore(<<>>, <<>>), entity)
          IN  /\ loads = r.loads
              /\ ctxs = r.ctxs
    /\ lastp = [op |-> "init", n |-> 0, recv |-> 0, res |-> "ok", new |-> 1,
                attrs |-> <<>>, strategy |-> NoneV, innerjoin |-> "None",
                before |-> [path |-> <<>>, strategy |-> NoneV, context |-> {}]]
    /\ opts = <<>>
    /\ binds = <<>>
    /\ made = <<>>
    /\ query = <<>>
    /\ DmlIdle

SetStrategy(o, attr, strategy) ==
    LoadCalled("set_strategy", o, load_set_strategy(LStore(loads, ctxs), o, attr, strategy),
               <<attr>>, strategy, "None")
SetColumnStrategy(o, attrs) ==
    LoadCalled("set_column_strategy", o, load_defer(LStore(loads, ctxs), o, attrs),
               attrs, DeferredStrategy, "None")
Default(o, attr) ==
    LoadCalled("default", o, load_default(LStore(loads, ctxs), o, attr),
               <<attr>>, NoneV, "None")
Joined(o, attr, innerjoin) ==
    LoadCalled("joined", o, load_joined(LStore(loads, ctxs), o, attr, innerjoin),
               <<attr>>, JoinedStrategy, innerjoin)

NextLoad ==
    \/ \E o \in DOMAIN loads, attr \in LoadAttrs, strategy \in LoadStrategies :
            SetStrategy(o, attr, strategy)
    \/ \E o \in DOMAIN loads, attrs \in ColumnAttrLists : SetColumnStrategy(o, attrs)
    \/ \E o \in DOMAIN loads, attr \in LoadAttrs : Default(o, attr)
    \/ \E o \in DOMAIN loads, attr \in LoadAttrs, innerjoin \in LoadInnerJoins :
            Joined(o, attr, innerjoin)

SpecLoad == InitLoad /\ [][NextLoad]_vars

(***************************************************************************)
(* Properties of the bound Load option.                                    *)
(***************************************************************************)
LoadOps == {"set_strategy", "set_column_strategy", "default", "joined"}
NowLoad(o) == DeepLoad(LStore(loads, ctxs), o)
\* The receiver's path extended by an attribute: the property, and the
\* target entity when the property is a relationship.
Extended(path, attr) ==
    path \o <<attr.key>>
         \o (IF PropTarget(path[Len(path)], attr.key) = Column THEN <<>>
             ELSE <<PropTarget(path[Len(path)], attr.key)>>)
EntriesAt(ctx, key) == {e \in ctx : e.key = key}

\* C11: after a call of set_strategy, set_column_strategy, default or joined
\* on a Load option, the receiver's path, strategy and context entries are
\* what they were before the call.
C11_ReceiverUnchanged ==
    lastp.op \in LoadOps => NowLoad(lastp.recv) = lastp.before
\* What the code keeps of it: the receiver's path and strategy.
C11_PathAndStrategyKept ==
    lastp.op \in LoadOps
    => /\ NowLoad(lastp.recv).path = lastp.before.path
       /\ NowLoad(lastp.recv).strategy = lastp.before.strategy

\* C19 (as amended): joined(attribute, innerjoin) records "eager_join_type"
\* in the context of the returned option exactly when innerjoin is not None
\* (False is recorded as False), at the parent of the option's path when
\* the path ends with an entity and at the path itself otherwise; this is
\* the key of the option's "loader" entry only when the path ends with an
\* entity.
JoinedLoaderKey == parent(loads[lastp.new].path)
JoinedOptionKey ==
    IF has_entity(loads[lastp.new].path) THEN parent(loads[lastp.new].path)
    ELSE loads[lastp.new].path
JoinedBase ==
    PathSet(lastp.before.context, "loader", JoinedLoaderKey,
            LoadValue(JoinedStrategy, loads[lastp.new].path))
C20_SetStrategy ==
    (lastp.op \in {"set_strategy", "default"} /\ lastp.res = "ok")
    => LET new == NowLoad(lastp.new)
       IN  /\ new.path = Extended(lastp.before.path, lastp.attrs[1])
           /\ new.strategy = lastp.strategy
           /\ lastp.op = "default" => lastp.strategy = NoneV
           /\ lastp.strategy = NoneV => new.context = lastp.before.context
           /\ lastp.strategy # NoneV =>
                new.context = PathSet(lastp.before.context, "loader", parent(new.path),
                                      LoadValue(lastp.strategy, new.path))
C20_Witness ==
    /\ lastp.op = "set_strategy"
    /\ lastp.res = "ok"
    /\ lastp.n = 2
    /\ lastp.strategy = LazyStrategy
    /\ Len(lastp.before.path) = 3
    /\ Len(loads[lastp.new].path) = 5
    /\ lastp.before.context # {}
    /\ Entry("loader", parent(loads[lastp.new].path),
             LoadValue(LazyStrategy, loads[lastp.new].path)) \in NowLoad(lastp.new).context

(***************************************************************************)
(* Unbound options over class-bound attributes.  The keys of an option     *)
(* are strings (dotted names), class-bound attributes, or anything else.   *)
(***************************************************************************)
KStr(str) == [t |-> "str", str |-> str, cls |-> "", key |-> ""]
KAttr(cls, key) == [t |-> "attr", str |-> <<>>, cls |-> cls, key |-> key]
KOther == [t |-> "other", str |-> <<>>, cls |-> "", key |-> ""]
\* A class-bound attribute with of_type(entity).
KAttrOf(cls, key, entity) ==
    [t |-> "attr", str |-> <<>>, cls |-> cls, key |-> key, of_type |-> entity]

\* _UnboundLoad._from_keys on keys of any kind: key.split(".") is a method
\* of strings only, so a key that is not a string raises AttributeError in
\* the list comprehension, before any option is derived.
from_keys_call(st, keys, chained, innerjoin) ==
    IF \E i \in DOMAIN keys : keys[i].t # "str"
    THEN [res |-> "AttributeError", st |-> st, id |-> 0]
    ELSE LET r == from_keys(st, [i \in DOMAIN keys |-> keys[i].str], chained, innerjoin)
         IN  [res |-> "ok", st |-> r.st, id |-> r.id]

\* _UnboundLoad().joined(a1).joined(a2)...: the chain the caller builds by
\* hand from attribute tokens.
RECURSIVE joined_chain(_, _, _, _)
joined_chain(st, o, toks, innerjoin) ==
    IF toks = <<>> THEN [st |-> st, id |-> o]
    ELSE LET r == joined(st, o, Head(toks), innerjoin)
         IN  joined_chain(r.st, r.id, Tail(toks), innerjoin)
unbound_joined(st, toks, innerjoin) ==
    LET o == UnboundLoad(st)
        r == joined_chain(o.st, o.id, toks, innerjoin)
    IN  [res |-> "ok", st |-> r.st, id |-> r.id]

\* The same path as attributes and as names.
AttrPaths ==
    { <<KAttr("User", "orders")>>,
      <<KAttr("User", "orders"), KAttr("Order", "items")>>,
      <<KAttr("User", "name")>> }
NamesOf(keys) == [i \in DOMAIN keys |-> KStr(<<keys[i].key>>)]
AttrKeys == AttrPaths \cup {NamesOf(ks) : ks \in AttrPaths}
TokensOf(keys) ==
    [i \in DOMAIN keys |-> IF keys[i].t = "attr" THEN AttrTok(keys[i].cls, keys[i].key)
                           ELSE StrTok(keys[i].str[1])]
AttrQueries ==
    { Query(<<"User">>, <<>>, {}),
      Query(<<"User", "Order">>, <<>>, {}),
      Query(<<"Order">>, <<>>, {}),
      Query(<<>>, <<>>, {}) }

InitUnboundAttr ==
    /\ opts = <<>>
    /\ binds = <<>>
    /\ made = <<>>
    /\ query \in AttrQueries
    /\ lastp = [op |-> "init", opt |-> 0, raiseerr |-> FALSE, res |-> "ok", ctx |-> {},
                before |-> {}, keys |-> <<>>, chained |-> FALSE]
    /\ DmlIdle
    /\ LoadIdle

Built(op, r, keys, chained, innerjoin) ==
    /\ Len(made) < MaxMade
    /\ opts' = r.st.opts
    /\ binds' = r.st.binds
    /\ made' = IF r.res = "ok"
               THEN Append(made, [opt |-> r.id, keys |-> keys, chained |-> chained,
                                  innerjoin |-> innerjoin, by |-> op])
               ELSE made
    /\ lastp' = [op |-> op, opt |-> IF r.res = "ok" THEN Len(made) + 1 ELSE 0,
                 raiseerr |-> FALSE, res |-> r.res, ctx |-> {},
                 before |-> query.attributes, keys |-> keys, chained |-> chained]
    /\ UNCHANGED <<query, dmlVars, loadVars>>

FromKeysCall(keys, chained, innerjoin) ==
    Built("from_keys", from_keys_call(Store(opts, binds), keys, chained, innerjoin),
          keys, chained, innerjoin)

UnboundJoined(keys, innerjoin) ==
    Built("joined", unbound_joined(Store(opts, binds), TokensOf(keys), innerjoin),
          keys, TRUE, innerjoin)

ProcessBuilt(m, raiseerr, order) ==
    /\ LET r == process(opts, order, query, raiseerr)
       IN  /\ query' = IF r.res = "ok"
                       THEN [query EXCEPT !.attributes = AttrUpdate(@, r.ctx)]
                       ELSE query
           /\ lastp' = [op |-> "process", opt |-> m, raiseerr |-> raiseerr, res |-> r.res,
                        ctx |-> r.ctx, before |-> query.attributes,
                        keys |-> made[m].keys, chained |-> made[m].chained]
    /\ UNCHANGED <<opts, binds, made, dmlVars, loadVars>>

NextUnboundAttr ==
    \/ \E keys \in AttrKeys, chained \in BOOLEAN, innerjoin \in InnerJoins :
            FromKeysCall(keys, chained, innerjoin)
    \/ \E keys \in AttrKeys, innerjoin \in InnerJoins : UnboundJoined(keys, innerjoin)
    \/ \E m \in DOMAIN made, raiseerr \in BOOLEAN :
            \E order \in Orders(binds[opts[made[m].opt].to_bind]) :
                ProcessBuilt(m, raiseerr, order)

SpecUnboundAttr == InitUnboundAttr /\ [][NextUnboundAttr]_vars

\* C14: an unbound option whose leading token is a class-bound attribute of
\* a class that no entity of the query corresponds to: process_query raises
\* an argument error, process_query_conditionally raises nothing and writes
\* nothing into the query's attribute context.
NoEntityFor(q, keys) ==
    /\ keys # <<>>
    /\ keys[1].t = "attr"
    /\ \A i \in DOMAIN q.mapper_entities : q.mapper_entities[i] # keys[1].cls
C14_RaiseFlagControlsMiss ==
    (lastp.op = "process" /\ NoEntityFor(query, lastp.keys))
    => /\ lastp.raiseerr => lastp.res = "ArgumentError"
       /\ ~lastp.raiseerr => /\ lastp.res = "ok"
                             /\ lastp.ctx = {}
                             /\ query.attributes = lastp.before

\* C17: the same path given as names and given as class-bound attributes
\* builds, through _from_keys, options that put the same entries into the
\* attribute context of the same query.
SameAsNames(keys, chained, innerjoin, raiseerr) ==
    LET r == from_keys_call(Store(<<>>, <<>>), NamesOf(keys), chained, innerjoin)
    IN  \E order \in Orders(r.st.binds[r.st.opts[r.id].to_bind]) :
           LET p == process(r.st.opts, order, query, raiseerr)
           IN  p.res = lastp.res /\ p.ctx = lastp.ctx
C17_NamesAndAttributesAgree ==
    /\ (lastp.op = "from_keys" /\ lastp.keys \in AttrPaths) => lastp.res = "ok"
    /\ (/\ lastp.op = "process"
        /\ lastp.keys \in AttrPaths
        /\ query.mapper_entities # <<>>
        /\ query.mapper_entities[1] = lastp.keys[1].cls)
       => SameAsNames(lastp.keys, lastp.chained, made[lastp.opt].innerjoin, lastp.raiseerr)

(***************************************************************************)
(* PropertyOption: _process_paths reconciles the key of an option with the *)
(* current path and the entities of the query.  The tokens of the model    *)
(* carry no of_type annotation.                                            *)
(***************************************************************************)
\* str.endswith(':*') on the whole token, and the token as one string.
WildcardNames == {"relationship:*", "column:*"}
endswith_wildcard(str) == str[Len(str)] \in WildcardNames
RECURSIVE text(_)
text(str) == IF str = <<>> THEN "" ELSE Head(str) \o text(Tail(str))

\* token.split(".", 1): the first name, and the remainder as one token.
split_first(str) == str[1]
split_rest(str) == IF Len(str) > 1 THEN <<KStr(SubSeq(str, 3, Len(str)))>> ELSE <<>>

PathsRaise(err) == [res |-> err, paths |-> <<>>]
no_result == [res |-> "ok", paths |-> <<>>]

\* PropertyOption._find_entity_prop_comparator.
find_entity_prop_comparator(q, token, mapper, raiseerr) ==
    IF \E i \in DOMAIN q.mapper_entities : q.mapper_entities[i] = mapper
    THEN [res |-> "ok", entity |-> mapper]
    ELSE IF raiseerr THEN [res |-> "ArgumentError", entity |-> "None"]
    ELSE [res |-> "ok", entity |-> "None"]

\* Lines 839-845: tokens ran out; a current path that is not exhausted gives
\* no_result.
finish_paths_raises(raiseerr, current_path, paths) ==
    IF current_path # <<>>
    THEN (IF raiseerr THEN PathsRaise("ArgumentError") ELSE no_result)
    ELSE [res |-> "ok", paths |-> paths]
finish_paths(raiseerr, current_path, paths) ==
    IF current_path # <<>> THEN no_result ELSE [res |-> "ok", paths |-> paths]

\* The while loop of _process_paths over the state s = [tokens,
\* current_path, entity, mapper, path_element, path, paths, attributes];
\* attributes is query._attributes, which the loop writes into.  extend_path
\* is lines 810-837 for the property (cls, key) of the token and its of_type
\* entity ("None" when the token has none).
Outcome(r, s) == [res |-> r.res, paths |-> r.paths, attributes |-> s.attributes]
of_type(token) == IF "of_type" \in DOMAIN token THEN token.of_type ELSE "None"
WithPolyInfo(entity) == PlainValue(<<"with_polymorphic", entity>>)
RECURSIVE process_paths_loop(_, _, _)
RECURSIVE extend_path(_, _, _, _, _, _)
extend_path(q, raiseerr, s, cls, key, oftype) ==
    IF raiseerr /\ cls # s.mapper THEN Outcome(PathsRaise("ArgumentError"), s)
    ELSE LET path == s.path \o <<s.path_element, PropElem(s.path_element, cls, key)>>
             s1 == [s EXCEPT !.path = path, !.paths = Append(@, path)]
         IN  IF oftype # "None"
             THEN process_paths_loop(q, raiseerr,
                        [s1 EXCEPT !.path_element = oftype, !.mapper = oftype,
                                   !.attributes = PathSet(@, "path_with_polymorphic", path,
                                                          WithPolyInfo(oftype))])
             ELSE LET mapper == IF PropTarget(cls, key) = Column THEN "None"
                                ELSE PropTarget(cls, key)
                  IN  IF mapper = "None" /\ s.tokens # <<>>
                      THEN Outcome(PathsRaise("ArgumentError"), s1)
                      ELSE process_paths_loop(q, raiseerr,
                                [s1 EXCEPT !.path_element = mapper, !.mapper = mapper])
process_paths_loop(q, raiseerr, s) ==
    IF s.tokens = <<>> THEN Outcome(finish_paths(raiseerr, s.current_path, s.paths), s)
    ELSE LET token == Head(s.tokens)
         IN  IF token.t = "str"
             THEN IF endswith_wildcard(token.str)
                  THEN Outcome([res |-> "ok", paths |-> <<s.path \o <<text(token.str)>>>>], s)
                  ELSE LET name == split_first(token.str)
                           s0 == [s EXCEPT !.tokens = split_rest(token.str) \o Tail(s.tokens)]
                       IN  IF s.current_path # <<>>
                           THEN (IF s.current_path[2] = name
                                 THEN process_paths_loop(q, raiseerr,
                                        [s0 EXCEPT !.current_path = SubSeq(@, 3, Len(@))])
                                 ELSE Outcome(no_result, s))
                           ELSE LET f == IF s.entity = "None"
                                         THEN find_entity_basestring(q, name, raiseerr)
                                         ELSE [res |-> "ok", entity |-> s.entity]
                                    s1 == IF s.entity = "None"
                                          THEN [s0 EXCEPT !.entity = f.entity,
                                                          !.path_element = f.entity,
                                                          !.mapper = f.entity]
                                          ELSE s0
                                IN  IF f.res # "ok" THEN Outcome(PathsRaise(f.res), s)
                                    ELSE IF f.entity = "None" THEN Outcome(no_result, s)
                                    ELSE IF PropTarget(s1.mapper, name) = NoProp
                                    THEN (IF raiseerr
                                          THEN Outcome(PathsRaise("ArgumentError"), s)
                                          ELSE Outcome(no_result, s))
                                    ELSE extend_path(q, raiseerr, s1, s1.mapper, name, "None")
             ELSE IF token.t = "attr"
             THEN LET s0 == [s EXCEPT !.tokens = Tail(s.tokens)]
                  IN  IF s.current_path # <<>>
                      THEN (IF SubSeq(s.current_path, 1, 2) = <<token.cls, token.key>>
                            THEN process_paths_loop(q, raiseerr,
                                    [s0 EXCEPT !.current_path = SubSeq(@, 3, Len(@))])
                            ELSE Outcome(no_result, s))
                      ELSE LET f == IF s.entity = "None"
                                    THEN find_entity_prop_comparator(q, token.key, token.cls,
                                                                     raiseerr)
                                    ELSE [res |-> "ok", entity |-> s.entity]
                               s1 == IF s.entity = "None"
                                     THEN [s0 EXCEPT !.entity = f.entity,
                                                     !.path_element = f.entity,
                                                     !.mapper = f.entity]
                                     ELSE s0
                           IN  IF f.res # "ok" THEN Outcome(PathsRaise(f.res), s)
                               ELSE IF f.entity = "None" THEN Outcome(no_result, s)
                               ELSE extend_path(q, raiseerr, s1, token.cls, token.key,
                                                of_type(token))
             ELSE Outcome(PathsRaise("ArgumentError"), s)

\* PropertyOption._process_paths: the result, the paths, and query._attributes
\* after the call.
process_paths(q, key, raiseerr) ==
    process_paths_loop(q, raiseerr,
        [tokens |-> key, current_path |-> q.current_path, entity |-> "None",
         mapper |-> "None", path_element |-> "None", path |-> <<>>, paths |-> <<>>,
         attributes |-> q.attributes])

\* PropertyOption._process for a strategized option: process_query_property
\* is called when the path list is not empty.
property_process(q, opt, raiseerr) ==
    LET r == process_paths(q, opt.key, raiseerr)
    IN  IF r.res = "ok" /\ r.paths # <<>>
        THEN [res |-> "ok", paths |-> r.paths, called |-> TRUE,
              attributes |-> process_query_property(r.attributes, opt, r.paths)]
        ELSE [res |-> r.res, paths |-> r.paths, called |-> FALSE,
              attributes |-> r.attributes]

\* EagerLazyOption.__init__ with its key.
ErrWildcardAlone == "ArgumentError: Wildcard identifier '*' must be specified alone."
Star == KStr(<<"*">>)
eager_lazy_init(key, lazy, chained, propagate_to_loaders) ==
    LET wild == key[1] = Star
    IN  IF wild /\ Len(key) # 1 THEN [res |-> ErrWildcardAlone, opt |-> NoneV]
        ELSE [res |-> "ok",
              opt |-> [cls |-> "EagerLazyOption", defer |-> FALSE, chained |-> chained,
                       strategy_cls |-> strategy_lookup(lazy),
                       key |-> IF wild THEN <<KStr(<<"relationship:*">>)>> ELSE key,
                       propagate_to_loaders |-> IF wild THEN FALSE
                                                ELSE propagate_to_loaders]]

(***************************************************************************)
(* The property-option state machine: EagerLazyOption objects are          *)
(* constructed and processed against the query, in raise mode              *)
(* (process_query) and in conditional mode (process_query_conditionally).  *)
(***************************************************************************)
PropertyKeys ==
    { <<Star>>,
      <<Star, KStr(Str("orders"))>>,
      <<KStr(Str("orders")), Star>>,
      <<KStr(Str("orders")), Star, KStr(Str("items"))>>,
      <<KStr(Str("orders"))>>,
      <<KStr(Dotted2("orders", "items"))>>,
      <<KStr(Str("orders")), KStr(Str("items"))>>,
      <<KAttr("User", "orders")>>,
      <<KAttr("User", "orders"), KAttr("Order", "items")>>,
      <<KStr(Str("bogus"))>>,
      <<KStr(Dotted2("name", "orders"))>>,
      <<KAttr("User", "orders"), KAttr("User", "name")>>,
      <<KAttr("Item", "keywords")>>,
      <<KAttrOf("User", "orders", "Order"), KStr(Str("items"))>>,
      <<KAttrOf("User", "orders", "Order"), KStr(Str("bogus"))>>,
      <<KOther>>,
      <<KStr(Str("orders")), KOther>> }
PropertyQueries ==
    { Query(<<"User">>, <<>>, {}),
      Query(<<"Order", "User">>, <<>>, {}),
      Query(<<>>, <<>>, {}),
      Query(<<"Order">>, <<"User", "orders">>, {}),
      Query(<<"Item">>, <<"User", "orders", "Order", "items">>, {}) }

InitProperty ==
    /\ query \in PropertyQueries
    /\ made = <<>>
    /\ lastp = [op |-> "init", n |-> 0, opt |-> 0, key |-> <<>>, raiseerr |-> FALSE,
                res |-> "ok", paths |-> <<>>, called |-> FALSE, before |-> {}]
    /\ opts = <<>>
    /\ binds = <<>>
    /\ DmlIdle
    /\ LoadIdle

NewEagerLazyOption(key, lazy, chained) ==
    /\ Len(made) < MaxMade
    /\ LET r == eager_lazy_init(key, lazy, chained, TRUE)
       IN  /\ made' = IF r.res = "ok" THEN Append(made, r.opt) ELSE made
           /\ lastp' = [op |-> "EagerLazyOption", n |-> lastp.n,
                        opt |-> IF r.res = "ok" THEN Len(made) + 1 ELSE 0, key |-> key,
                        raiseerr |-> FALSE, res |-> r.res, paths |-> <<>>,
                        called |-> FALSE, before |-> query.attributes]
    /\ UNCHANGED <<query, opts, binds, dmlVars, loadVars>>

PropertyProcess(m, raiseerr) ==
    /\ lastp.n < MaxCalls
    /\ LET r == property_process(query, made[m], raiseerr)
       IN  /\ query' = [query EXCEPT !.attributes = r.attributes]
           /\ lastp' = [op |-> "process", n |-> lastp.n + 1, opt |-> m, key |-> made[m].key,
                        raiseerr |-> raiseerr, res |-> r.res, paths |-> r.paths,
                        called |-> r.called, before |-> query.attributes]
    /\ UNCHANGED <<made, opts, binds, dmlVars, loadVars>>

NextProperty ==
    \/ \E key \in PropertyKeys, lazy \in {"joined", "True"}, chained \in BOOLEAN :
            NewEagerLazyOption(key, lazy, chained)
    \/ \E m \in DOMAIN made, raiseerr \in BOOLEAN : PropertyProcess(m, raiseerr)

SpecProperty == InitProperty /\ [][NextProperty]_vars

\* C12: constructing an EagerLazyOption whose key holds "*" and any other
\* token raises the wildcard argument error, wherever "*" stands in the key.
C12_WildcardAlone ==
    (/\ lastp.op = "EagerLazyOption"
     /\ Len(lastp.key) > 1
     /\ \E i \in DOMAIN lastp.key : lastp.key[i] = Star)
    => lastp.res = ErrWildcardAlone

\* C13: whenever process_query would raise an argument error for a key and
\* a query, process_query_conditionally returns normally and does not call
\* process_query_property.
C13_ConditionalNeverRaises ==
    (/\ lastp.op = "process"
     /\ ~lastp.raiseerr
     /\ process_paths(query, lastp.key, TRUE).res = "ArgumentError")
    => lastp.res = "ok" /\ ~lastp.called

\* The tokens of a key as (class, name) pairs, "" for the class of a name.
RECURSIVE KeyProps(_)
KeyProps(key) ==
    IF key = <<>> THEN <<>>
    ELSE IF Head(key).t = "attr"
    THEN <<<<Head(key).cls, Head(key).key>>>> \o KeyProps(Tail(key))
    ELSE KeyProps([i \in 1..((Len(Head(key).str) + 1) \div 2)
                        |-> KAttr("", Head(key).str[2 * i - 1])])
         \o KeyProps(Tail(key))
\* The key is a proper prefix of the pairs of the current path.
RunsOut(key, cur) ==
    /\ \A i \in DOMAIN key : key[i].t \in {"str", "attr"}
    /\ key # <<>>
    /\ Len(KeyProps(key)) < Len(cur) \div 2
    /\ \A i \in DOMAIN KeyProps(key) :
          /\ KeyProps(key)[i][2] = cur[2 * i]
          /\ KeyProps(key)[i][1] \in {"", cur[2 * i - 1]}

NoAlias == <<>>
RowProcessor == "user_defined_eager_row_processor"
WithPoly == "path_with_polymorphic"
ColumnAdapter(alias) == PlainValue(<<"ColumnAdapter">> \o alias)
ORMAdapter(with_poly_info) == PlainValue(<<"ORMAdapter">> \o with_poly_info.strategy)
\* query._polymorphic_adapters.get(mapper, None)
adapters_get(q, mapper) ==
    IF mapper \in q.polymorphic_adapters
    THEN PlainValue(<<"polymorphic_adapter", mapper>>)
    ELSE PlainValue(<<"None">>)
\* path.setdefault(attributes, key, value)
PathSetDefault(attributes, key, path, value) ==
    IF Contains(attributes, key, path) THEN attributes
    ELSE attributes \cup {Entry(key, path, value)}
\* prop.mapper of the property a path ends with ("None": a column property
\* has no mapper attribute).
prop_mapper(path) ==
    IF PropTarget(path[Len(path) - 1], path[Len(path)]) = Column THEN "None"
    ELSE PropTarget(path[Len(path) - 1], path[Len(path)])

\* LoadEagerFromAliasOption.__init__: a selectable is taken from an alias
\* that is not a string.
LoadEagerFromAliasOption(alias, chained) ==
    [cls |-> "LoadEagerFromAliasOption", alias |-> alias, chained |-> chained]

\* Lines 948-954: the paths before the last one, when chained.
RECURSIVE alias_setdefault_all(_, _, _)
alias_setdefault_all(q, attributes, paths) ==
    IF paths = <<>> THEN attributes
    ELSE alias_setdefault_all(q,
            PathSetDefault(attributes, RowProcessor, Head(paths),
                           adapters_get(q, prop_mapper(Head(paths)))),
            Tail(paths))

\* LoadEagerFromAliasOption.process_query_property: [res, attributes, opt].
alias_process_query_property_table_first(q, opt, paths) ==
    LET lastpath == paths[Len(paths)]
        attrs0 == IF opt.chained
                  THEN alias_setdefault_all(q, q.attributes, SubSeq(paths, 1, Len(paths) - 1))
                  ELSE q.attributes
    IN  IF prop_mapper(lastpath) = "None"
        THEN [res |-> "AttributeError", attributes |-> attrs0, opt |-> opt]
        ELSE [res |-> "ok", opt |-> opt,
              attributes |-> PathSet(attrs0, RowProcessor, lastpath,
                                     IF prop_mapper(lastpath) \in q.polymorphic_adapters
                                     THEN adapters_get(q, prop_mapper(lastpath))
                                     ELSE IF opt.alias # NoAlias THEN ColumnAdapter(opt.alias)
                                     ELSE IF Contains(attrs0, WithPoly, lastpath)
                                     THEN ORMAdapter(Get(attrs0, WithPoly, lastpath))
                                     ELSE adapters_get(q, prop_mapper(lastpath)))]
alias_process_query_property(q, opt, paths) ==
    LET lastpath == paths[Len(paths)]
        attrs0 == IF opt.chained
                  THEN alias_setdefault_all(q, q.attributes, SubSeq(paths, 1, Len(paths) - 1))
                  ELSE q.attributes
    IN  IF opt.alias # NoAlias
        THEN LET alias == IF opt.alias[1] = "str"
                          THEN <<"alias", prop_mapper(lastpath), opt.alias[2]>>
                          ELSE opt.alias
             IN  IF prop_mapper(lastpath) = "None"
                 THEN [res |-> "AttributeError", attributes |-> attrs0, opt |-> opt]
                 ELSE [res |-> "ok", opt |-> [opt EXCEPT !.alias = alias],
                       attributes |-> PathSet(attrs0, RowProcessor, lastpath,
                                              ColumnAdapter(alias))]
        ELSE IF prop_mapper(lastpath) = "None"
        THEN [res |-> "AttributeError", attributes |-> attrs0, opt |-> opt]
        ELSE [res |-> "ok", opt |-> opt,
              attributes |-> PathSet(attrs0, RowProcessor, lastpath,
                                     IF Contains(attrs0, WithPoly, lastpath)
                                     THEN ORMAdapter(Get(attrs0, WithPoly, lastpath))
                                     ELSE adapters_get(q, prop_mapper(lastpath)))]

(***************************************************************************)
(* The contains_eager state machine: the query carries polymorphic         *)
(* adapters and may already hold polymorphic and row-processor entries.    *)
(***************************************************************************)
Aliases == {NoAlias, <<"str", "o1">>, <<"alias", "Order", "o2">>}
OrdersPath == <<"User", "orders">>
EarlierEntries ==
    { {},
      {Entry(WithPoly, OrdersPath, PlainValue(<<"with_polymorphic", "Order">>))},
      {Entry(RowProcessor, OrdersPath, PlainValue(<<"earlier">>))},
      {Entry(WithPoly, OrdersPath, PlainValue(<<"with_polymorphic", "Order">>)),
       Entry(RowProcessor, OrdersPath, PlainValue(<<"earlier">>))} }
AliasQuery(attrs, adapters) ==
    [mapper_entities |-> <<"User">>, current_path |-> <<>>, attributes |-> attrs,
     polymorphic_adapters |-> adapters]
AliasKeyNames == {<<"orders">>, <<"orders", "items">>, <<"name">>, <<"orders", "user">>}

InitAlias ==
    /\ query \in {AliasQuery(a, p) : a \in EarlierEntries, p \in SUBSET {"Order", "Item"}}
    /\ made = <<>>
    /\ lastp = [op |-> "init", n |-> 0, opt |-> 0, alias |-> NoAlias, chained |-> FALSE,
                paths |-> <<>>, res |-> "ok", before |-> {}]
    /\ opts = <<>>
    /\ binds = <<>>
    /\ DmlIdle
    /\ LoadIdle

NewAliasOption(alias, chained) ==
    /\ Len(made) < MaxMade
    /\ made' = Append(made, LoadEagerFromAliasOption(alias, chained))
    /\ lastp' = [op |-> "LoadEagerFromAliasOption", n |-> lastp.n, opt |-> Len(made) + 1,
                 alias |-> alias, chained |-> chained, paths |-> <<>>, res |-> "ok",
                 before |-> query.attributes]
    /\ UNCHANGED <<query, opts, binds, dmlVars, loadVars>>

AliasProcessQueryProperty(m, paths) ==
    /\ lastp.n < MaxCalls
    /\ LET r == alias_process_query_property(query, made[m], paths)
       IN  /\ query' = [query EXCEPT !.attributes = r.attributes]
           /\ made' = [made EXCEPT ![m] = r.opt]
           /\ lastp' = [op |-> "process_query_property", n |-> lastp.n + 1, opt |-> m,
                        alias |-> made[m].alias, chained |-> made[m].chained,
                        paths |-> paths, res |-> r.res, before |-> query.attributes]
    /\ UNCHANGED <<opts, binds, dmlVars, loadVars>>

NextAlias ==
    \/ \E alias \in Aliases, chained \in BOOLEAN : NewAliasOption(alias, chained)
    \/ \E m \in DOMAIN made, names \in AliasKeyNames :
            AliasProcessQueryProperty(m, PathList("User", names))

SpecAlias == InitAlias /\ [][NextAlias]_vars

\* C18: the row adapter that LoadEagerFromAliasOption writes at the last
\* path is the adapter of the explicit alias when one was given; otherwise
\* the adapter of the polymorphic entity when the context already held a
\* "path_with_polymorphic" entry at that path; otherwise the entry of the
\* query's polymorphic-adapter table for the property's mapper, None when
\* it has none.  An entry already at the last path is overwritten.
LastPath == lastp.paths[Len(lastp.paths)]
WrittenAdapter == Get(query.attributes, RowProcessor, LastPath).strategy
C29_OptionUnchanged ==
    lastp.op = "process_query_property"
    => /\ made[lastp.opt].alias = lastp.alias
       /\ made[lastp.opt].chained = lastp.chained

KPair(cls, key) == [t |-> "pair", str |-> <<>>, cls |-> cls, key |-> key]

\* PropertyOption.__getstate__: a copy of __dict__ whose key is the list of
\* the tokens, (token._parentmapper.class_, token.key) for an attribute.
getstate(opt) ==
    [opt EXCEPT !.key = [i \in DOMAIN opt.key |->
                            IF opt.key[i].t = "attr"
                            THEN KPair(opt.key[i].cls, opt.key[i].key)
                            ELSE opt.key[i]]]

\* PropertyOption.__setstate__: getattr(cls, propkey) for a tuple, the token
\* itself otherwise; the state becomes the __dict__ of the object.
setstate_keeps_pairs(state) == state
setstate(state) ==
    [state EXCEPT !.key = [i \in DOMAIN state.key |->
                              IF state.key[i].t = "pair"
                              THEN KAttr(state.key[i].cls, state.key[i].key)
                              ELSE state.key[i]]]

\* pickle.dumps(option): __getstate__ is called on the option.
GetState(m) ==
    /\ lastp.op # "getstate"
    /\ lastp' = [op |-> "getstate", n |-> lastp.n, opt |-> m, before |-> made[m],
                 state |-> getstate(made[m])]
    /\ UNCHANGED <<made, query, opts, binds, dmlVars, loadVars>>

\* pickle.loads: __setstate__ is called on a new object with that state.
SetState ==
    /\ lastp.op = "getstate"
    /\ lastp' = [op |-> "setstate", n |-> lastp.n, opt |-> lastp.opt, before |-> lastp.before,
                 state |-> lastp.state, restored |-> setstate(lastp.state)]
    /\ UNCHANGED <<made, query, opts, binds, dmlVars, loadVars>>

NextPickle ==
    \/ \E key \in PropertyKeys, lazy \in {"joined", "True"}, chained \in BOOLEAN :
            NewEagerLazyOption(key, lazy, chained)
    \/ \E m \in DOMAIN made : GetState(m)
    \/ SetState

SpecPickle == InitProperty /\ [][NextPickle]_vars

\* C23: __getstate__ turns each class-bound attribute of the key into a
\* (class, property-name) pair, leaves strings as they are and does not
\* change the option; __setstate__ on that state gives a key of as many
\* tokens in the same order, each pair turned back into the attribute of
\* that name on that class and each string unchanged.
IsStringOrAttribute(key) == \A i \in DOMAIN key : key[i].t \in {"str", "attr"}
C23_StateRoundTrip ==
    /\ (lastp.op = "getstate" /\ IsStringOrAttribute(lastp.before.key))
       => /\ made[lastp.opt] = lastp.before
          /\ Len(lastp.state.key) = Len(lastp.before.key)
          /\ \A i \in DOMAIN lastp.before.key :
                IF lastp.before.key[i].t = "attr"
                THEN lastp.state.key[i] = KPair(lastp.before.key[i].cls,
                                                lastp.before.key[i].key)
                ELSE lastp.state.key[i] = lastp.before.key[i]
    /\ (lastp.op = "setstate" /\ IsStringOrAttribute(lastp.before.key))
       => /\ Len(lastp.restored.key) = Len(lastp.before.key)
          /\ \A i \in DOMAIN lastp.before.key :
                IF lastp.before.key[i].t = "attr"
                THEN /\ lastp.restored.key[i].t = "attr"
                     /\ lastp.restored.key[i].cls = lastp.before.key[i].cls
                     /\ lastp.restored.key[i].key = lastp.before.key[i].key
                ELSE lastp.restored.key[i] = lastp.before.key[i]
C23_Witness ==
    /\ lastp.op = "setstate"
    /\ lastp.before.key = <<KAttr("User", "orders"), KAttr("Order", "items")>>
    /\ lastp.state.key = <<KPair("User", "orders"), KPair("Order", "items")>>
    /\ lastp.restored = lastp.before

(***************************************************************************)
(* Options derived by generative calls and merged into a query.  Every     *)
(* option is built twice by the same calls: unbound, from _UnboundLoad(),  *)
(* and bound, from Load(entity) for the first mapper entity of the query.  *)
(***************************************************************************)
MaxDerived == 2

\* _UnboundLoad._set_column_strategy (generative): one more clone for each
\* attribute, with the strategy and the extended path, added to _to_bind;
\* the first clone is returned, its path and strategy as they were.
RECURSIVE unbound_column_loop(_, _, _, _)
unbound_column_loop(st, self, attrs, strategy) ==
    IF attrs = <<>> THEN [st |-> st, id |-> self]
    ELSE LET g == generate(st, self)
             os == [g.st.opts EXCEPT ![g.id].strategy = strategy,
                                     ![g.id].path = unbound_generate_path(
                                                        st.opts[self].path, Head(attrs))]
         IN  unbound_column_loop(
                Store(os, [g.st.binds EXCEPT ![os[self].to_bind] = @ \cup {g.id}]),
                self, Tail(attrs), strategy)
unbound_set_column_strategy(st, o, attrs, strategy) ==
    LET g == generate(st, o)
    IN  unbound_column_loop(g.st, g.id, attrs, strategy)

\* Load.defer on an unbound option.
unbound_defer(st, o, attrs) == unbound_set_column_strategy(st, o, attrs, DeferredStrategy)

\* A generative call: joined(attr, innerjoin), default(attr), defer(*attrs).
Call(op, attrs, innerjoin) == [op |-> op, attrs |-> attrs, innerjoin |-> innerjoin]
DerivedAttrs == {StrTok("orders"), StrTok("name"), StrTok("items")}
DerivedInnerJoins == {"None", "True", "False"}
DerivedCalls ==
    {Call("joined", <<a>>, ij) : a \in DerivedAttrs, ij \in DerivedInnerJoins}
    \cup {Call("default", <<StrTok("orders")>>, "None")}
    \cup {Call("defer", <<StrTok("name")>>, "None")}

\* The call made on an unbound option and on a bound one.
unbound_call(st, o, call) ==
    CASE call.op = "joined" -> joined(st, o, call.attrs[1], call.innerjoin)
      [] call.op = "default" -> default(st, o, call.attrs[1])
      [] call.op = "defer" -> unbound_defer(st, o, call.attrs)
load_call(ls, o, call) ==
    CASE call.op = "joined" -> load_joined(ls, o, call.attrs[1], call.innerjoin)
      [] call.op = "default" -> load_default(ls, o, call.attrs[1])
      [] call.op = "defer" -> load_defer(ls, o, call.attrs)

\* Load(entity) followed by the calls, each on the option the one before
\* returned; Load._process then merges the context of the last one.
RECURSIVE load_calls(_, _)
load_calls(r, calls) ==
    IF calls = <<>> \/ r.res # "ok" THEN r
    ELSE load_calls(load_call(LStore(r.loads, r.ctxs), r.id, Head(calls)), Tail(calls))
BoundLoad(entity, calls) ==
    LET r == load_calls(Load(LStore(<<>>, <<>>), entity), calls)
    IN  [res |-> r.res,
         ctx |-> IF r.res = "ok" THEN r.ctxs[r.loads[r.id].context] ELSE {}]

\* _UnboundLoad() followed by the calls, with no other option derived.
RECURSIVE unbound_calls(_, _)
unbound_calls(r, calls) ==
    IF calls = <<>> THEN r
    ELSE unbound_calls(unbound_call(r.st, r.id, Head(calls)), Tail(calls))
UnboundAlone(calls) == unbound_calls(UnboundLoad(Store(<<>>, <<>>)), calls)

DerivedQueries ==
    { Query(<<"User">>, <<>>, {}),
      Query(<<"User">>, <<>>,
            {Entry("loader", <<"User", "orders">>,
                   LoadValue(LazyStrategy, <<"User", "orders", "Order">>)),
             Entry("eager_join_type", <<"User", "orders">>, PlainValue(<<"False">>)),
             Entry("loader", <<"Order", "user">>,
                   LoadValue(LazyStrategy, <<"Order", "user", "User">>))}) }

NoMerge == [done |-> FALSE, ctx |-> {}, before |-> {}]
Merged(op, opt, raiseerr, r, order) ==
    [op |-> op, n |-> lastp.n + 1, opt |-> opt, raiseerr |-> raiseerr, res |-> r.res,
     ctx |-> r.ctx, order |-> order, before |-> query.attributes,
     first |-> IF lastp.op \in {"process", "load_process"} /\ lastp.res = "ok"
               THEN [done |-> TRUE, ctx |-> lastp.ctx, before |-> lastp.before]
               ELSE NoMerge]

InitDerived ==
    /\ LET r == UnboundLoad(Store(<<>>, <<>>))
       IN  /\ opts = r.st.opts
           /\ binds = r.st.binds
           /\ made = <<[opt |-> r.id, calls |-> <<>>]>>
    /\ query \in DerivedQueries
    /\ lastp = [op |-> "init", n |-> 0, opt |-> 0, raiseerr |-> FALSE, res |-> "ok",
                ctx |-> {}, order |-> <<>>, before |-> {}, first |-> NoMerge]
    /\ DmlIdle
    /\ LoadIdle

\* option.joined(...), option.default(...) or option.defer(...) on any of the
\* options built so far.
Derive(m, call) ==
    /\ Len(made) <= MaxDerived
    /\ lastp.n = 0
    /\ LET r == unbound_call(Store(opts, binds), made[m].opt, call)
       IN  /\ opts' = r.st.opts
           /\ binds' = r.st.binds
           /\ made' = Append(made, [opt |-> r.id, calls |-> Append(made[m].calls, call)])
    /\ UNCHANGED <<query, lastp, dmlVars, loadVars>>

\* _UnboundLoad._process of an option built so far.  A query is given one
\* option and then a second one.
ProcessDerived(m, raiseerr, order) ==
    /\ lastp.n <= 1
    /\ LET r == process(opts, order, query, raiseerr)
       IN  /\ query' = IF r.res = "ok"
                       THEN [query EXCEPT !.attributes = AttrUpdate(@, r.ctx)]
                       ELSE query
           /\ lastp' = Merged("process", m, raiseerr, r, order)
    /\ UNCHANGED <<opts, binds, made, dmlVars, loadVars>>

\* Load._process of the bound option built by the same calls.
ProcessLoad(m) ==
    /\ lastp.n <= 1
    /\ LET r == BoundLoad(query.mapper_entities[1], made[m].calls)
       IN  /\ r.res = "ok"
           /\ query' = [query EXCEPT !.attributes = AttrUpdate(@, r.ctx)]
           /\ lastp' = Merged("load_process", m, TRUE, r, <<>>)
    /\ UNCHANGED <<opts, binds, made, dmlVars, loadVars>>

NextDerived ==
    \/ \E m \in DOMAIN made, call \in DerivedCalls : Derive(m, call)
    \/ \E m \in DOMAIN made, raiseerr \in BOOLEAN :
            \E order \in Orders(binds[opts[made[m].opt].to_bind]) :
                ProcessDerived(m, raiseerr, order)
    \/ \E m \in DOMAIN made : ProcessLoad(m)

SpecDerived == InitDerived /\ [][NextDerived]_vars

(***************************************************************************)
(* Two options, each built from its own _UnboundLoad(), merged into the    *)
(* query one after the other.                                              *)
(***************************************************************************)
MergeChains ==
    { <<Call("joined", <<StrTok("orders")>>, "None")>>,
      <<Call("joined", <<StrTok("orders")>>, "True")>>,
      <<Call("joined", <<StrTok("orders")>>, "False")>>,
      <<Call("joined", <<StrTok("name")>>, "None")>>,
      <<Call("defer", <<StrTok("name")>>, "None")>>,
      <<Call("default", <<StrTok("orders")>>, "None"),
        Call("joined", <<StrTok("items")>>, "True")>>,
      <<Call("joined", <<StrTok("orders")>>, "True"),
        Call("joined", <<StrTok("items")>>, "None")>>,
      <<Call("joined", <<StrTok("bogus")>>, "None")>> }

InitMerge ==
    /\ opts = <<>>
    /\ binds = <<>>
    /\ made = <<>>
    /\ query \in DerivedQueries
    /\ lastp = [op |-> "init", n |-> 0, opt |-> 0, raiseerr |-> FALSE, res |-> "ok",
                ctx |-> {}, order |-> <<>>, before |-> {}, first |-> NoMerge]
    /\ DmlIdle
    /\ LoadIdle

\* _UnboundLoad() and the calls of a chain, each on the option before.
Build(calls) ==
    /\ Len(made) <= MaxMade
    /\ lastp.n = 0
    /\ LET r == unbound_calls(UnboundLoad(Store(opts, binds)), calls)
       IN  /\ opts' = r.st.opts
           /\ binds' = r.st.binds
           /\ made' = Append(made, [opt |-> r.id, calls |-> calls])
    /\ UNCHANGED <<query, lastp, dmlVars, loadVars>>

NextMerge ==
    \/ \E calls \in MergeChains : Build(calls)
    \/ \E m \in DOMAIN made, raiseerr \in BOOLEAN :
            \E order \in Orders(binds[opts[made[m].opt].to_bind]) :
                ProcessDerived(m, raiseerr, order)
    \/ \E m \in DOMAIN made : ProcessLoad(m)

SpecMerge == InitMerge /\ [][NextMerge]_vars

\* C21: processing options merges their entries into the attribute context
\* of the query last-write-wins for each (path, key): after option A and
\* then option B, every (path, key) B wrote holds B's value, every one only
\* A wrote holds A's value, and every one neither wrote holds what it held
\* before.
Written(r) == IF r.res = "ok" THEN r.ctx ELSE {}
C21_LastWriteWins ==
    (lastp.op \in {"process", "load_process"} /\ lastp.first.done)
    => LET A == lastp.first.ctx
           B == Written(lastp)
           old == lastp.first.before
       IN  /\ \A e \in B : e \in query.attributes
           /\ \A e \in A : ~Contains(B, e.key, e.path) => e \in query.attributes
           /\ \A e \in old :
                (~Contains(B, e.key, e.path) /\ ~Contains(A, e.key, e.path))
                => e \in query.attributes
           /\ \A e \in query.attributes : e \in B \cup A \cup old
           /\ \A e, f \in query.attributes : (e.key = f.key /\ e.path = f.path) => e = f
C21_Witness ==
    /\ lastp.op = "process"
    /\ lastp.res = "ok"
    /\ lastp.first.done
    /\ Entry("eager_join_type", <<"User", "orders">>, PlainValue(<<"False">>))
            \in lastp.first.before
    /\ Entry("eager_join_type", <<"User", "orders">>, PlainValue(<<"True">>))
            \in lastp.first.ctx
    /\ Entry("eager_join_type", <<"User", "orders">>, PlainValue(<<"None">>)) \notin lastp.ctx
    /\ Contains(lastp.first.ctx, "loader", <<"User", "orders", "Order", "items">>)
    /\ ~Contains(lastp.ctx, "loader", <<"User", "orders", "Order", "items">>)
    /\ Contains(lastp.ctx, "eager_join_type", <<"User", "orders">>)
    /\ Get(query.attributes, "eager_join_type", <<"User", "orders">>)
            = Get(lastp.ctx, "eager_join_type", <<"User", "orders">>)
    /\ Get(lastp.ctx, "eager_join_type", <<"User", "orders">>) = PlainValue(<<"False">>)
    /\ Contains(query.attributes, "loader", <<"User", "orders", "Order", "items">>)
    /\ Contains(query.attributes, "loader", <<"Order", "user">>)

(***************************************************************************)
(* Properties of derived options.                                          *)
(***************************************************************************)
IsPrefix(a, b) == Len(a) <= Len(b) /\ SubSeq(b, 1, Len(a)) = a
\* The options built so far are those of one chain of calls ending in m.
OneChain(m) == \A k \in DOMAIN made : IsPrefix(made[k].calls, made[m].calls)
\* No option was derived from m.
NoneDerivedFrom(m) ==
    \A k \in DOMAIN made : IsPrefix(made[m].calls, made[k].calls) => made[k].calls = made[m].calls

\* C27: two unbound options derived from the same parent by separate
\* strategy-setting calls are independent: processing one of them writes
\* the directives of its own chain of calls and none for a path only its
\* sibling addresses, that is, what the same chain writes when no sibling
\* was ever derived.
C27_SiblingsIndependent ==
    (lastp.op = "process" /\ NoneDerivedFrom(lastp.opt))
    => LET alone == UnboundAlone(made[lastp.opt].calls)
       IN  \E order \in Orders(alone.st.binds[alone.st.opts[alone.id].to_bind]) :
              LET r == process(alone.st.opts, order, query, lastp.raiseerr)
              IN  /\ r.res = lastp.res
                  /\ Written(r) = Written(lastp)

\* C22: binding an unbound option writes the entries that the bound Load
\* built by the same calls from the matched entity writes when processed:
\* the same paths, the same key names ("loader", "eager_join_type") and the
\* same strategy, for a relationship at the tip and for a column at the tip.
C22_BoundAndUnboundAgree ==
    (lastp.op = "process" /\ lastp.res = "ok" /\ OneChain(lastp.opt)
        /\ made[lastp.opt].calls # <<>>
        /\ BoundLoad(query.mapper_entities[1], made[lastp.opt].calls).res = "ok")
    => BoundLoad(query.mapper_entities[1], made[lastp.opt].calls).ctx = lastp.ctx

====
